---------------------------- MODULE Spec2Model ----------------------------
(* State-machine model of lib/RaceTimeHandlerModule.py: the Race Monitor  *)
(* record protocol (process_data and its per-tag handlers), the Session    *)
(* store with its ordering and gap/diff engine, the snapshot builder       *)
(* (handle_session_update) and the WebSocket client lifecycle (connect,    *)
(* disconnect, the listener thread and its callbacks).                     *)
(*                                                                         *)
(* A Python str is modelled as a sequence of one-character strings, so     *)
(* that replace, strip, split, isdigit and int() are computed character    *)
(* by character.  A dict is a sequence of its values in insertion order.   *)
(* sorted_competitors holds references to the Competitor objects of the    *)
(* competitor dict; a reference is modelled by the racer_id under which    *)
(* the object is stored.                                                   *)
EXTENDS Integers, Sequences, FiniteSets, TLC

(***************************************************************************)
(* Bounds of the model                                                     *)
(***************************************************************************)
MaxLines == 2
MaxFrames == 2
MaxConnects == 2

(***************************************************************************)
(* Python str primitives                                                   *)
(***************************************************************************)
Digits == {"0", "1", "2", "3", "4", "5", "6", "7", "8", "9"}

Whitespace == {" ", "\t", "\r", "\n"}

DigitVal(c) ==
  CASE c = "0" -> 0 [] c = "1" -> 1 [] c = "2" -> 2 [] c = "3" -> 3
    [] c = "4" -> 4 [] c = "5" -> 5 [] c = "6" -> 6 [] c = "7" -> 7
    [] c = "8" -> 8 [] c = "9" -> 9

DigitChar(d) ==
  CASE d = 0 -> "0" [] d = 1 -> "1" [] d = 2 -> "2" [] d = 3 -> "3"
    [] d = 4 -> "4" [] d = 5 -> "5" [] d = 6 -> "6" [] d = 7 -> "7"
    [] d = 8 -> "8" [] d = 9 -> "9"

\* the character U+00B2, superscript two: a digit for str.isdigit() that is
\* not a decimal digit, so that int() rejects it
SuperscriptTwo == "^2"

\* str.isdigit(): non-empty and every character a digit, decimal or not
isdigit(s) ==
  Len(s) > 0 /\ \A i \in 1..Len(s) : s[i] \in Digits \cup {SuperscriptTwo}

RECURSIVE lstrip(_)
lstrip(s) ==
  IF s # <<>> /\ Head(s) \in Whitespace THEN lstrip(Tail(s)) ELSE s

RECURSIVE rstrip(_)
rstrip(s) ==
  IF s # <<>> /\ s[Len(s)] \in Whitespace
  THEN rstrip(SubSeq(s, 1, Len(s) - 1)) ELSE s

\* str.strip()
strip(s) == rstrip(lstrip(s))

\* str.replace(c, ''): every occurrence of the character is removed
remove_char(s, c) == SelectSeq(s, LAMBDA x : x # c)

\* str.split(c): the pieces between the occurrences of the separator;
\* start is the first character of the piece being cut
RECURSIVE split_from(_, _, _)
split_from(s, c, start) ==
  LET hits == {i \in start..Len(s) : s[i] = c}
  IN  IF hits = {} THEN <<SubSeq(s, start, Len(s))>>
      ELSE LET i == CHOOSE h \in hits : \A j \in hits : h <= j
           IN  <<SubSeq(s, start, i - 1)>> \o split_from(s, c, i + 1)

split(s, c) == split_from(s, c, 1)

\* value of a string of digits
RECURSIVE DigitsToNat(_)
DigitsToNat(s) ==
  IF s = <<>> THEN 0
  ELSE 10 * DigitsToNat(SubSeq(s, 1, Len(s) - 1)) + DigitVal(s[Len(s)])

\* int(s): surrounding whitespace and one leading sign are accepted
IntBody(s) == LET t == strip(s)
              IN  IF t # <<>> /\ Head(t) \in {"+", "-"} THEN Tail(t) ELSE t

\* int(s) does not raise ValueError: the body is made of decimal digits
IntOk(s) ==
  LET body == IntBody(s)
  IN  Len(body) > 0 /\ \A i \in 1..Len(body) : body[i] \in Digits

int(s) == LET t == strip(s)
          IN  IF t # <<>> /\ Head(t) = "-" THEN 0 - DigitsToNat(IntBody(s))
              ELSE DigitsToNat(IntBody(s))

\* str(n) for an integer
RECURSIVE NatToStr(_)
NatToStr(n) ==
  IF n < 10 THEN <<DigitChar(n)>>
  ELSE NatToStr(n \div 10) \o <<DigitChar(n % 10)>>

str(n) == IF n < 0 THEN <<"-">> \o NatToStr(0 - n) ELSE NatToStr(n)

\* format(n, "0Wd") for n >= 0: zero-padded to at least W characters
RECURSIVE ZeroPad(_, _)
ZeroPad(s, w) == IF Len(s) >= w THEN s ELSE ZeroPad(<<"0">> \o s, w)

fmt02d(n) == ZeroPad(NatToStr(n), 2)

fmt03d(n) == ZeroPad(NatToStr(n), 3)

(***************************************************************************)
(* Competitor: the time codec                                              *)
(***************************************************************************)
SENTINEL == <<"0", "0", ":", "5", "9", ":", "5", "9", ".", "9", "9", "9">>

\* a mutation of convert_time_to_milliseconds: the clock part is not
\* padded to three components, so that unpacking a shorter one raises and
\* 0 is returned
convert_time_to_milliseconds_unpadded(time_str) ==
  IF time_str = <<>> \/ time_str = SENTINEL THEN 0
  ELSE
    LET dotted == \E i \in 1..Len(time_str) : time_str[i] = "."
        pieces == split(time_str, ".")
        time_part == IF dotted THEN pieces[1] ELSE time_str
        parts == split(time_part, ":")
        n == Len(parts)
    IN  IF dotted /\ Len(pieces) # 2 THEN 0
        ELSE IF dotted /\ ~IntOk(pieces[2]) THEN 0
        ELSE IF \E i \in 1..n : ~IntOk(parts[i]) THEN 0
        ELSE IF n # 3 THEN 0
        ELSE
          LET milliseconds == IF dotted THEN int(pieces[2]) ELSE 0
          IN  int(parts[1]) * 60 * 60 * 1000 + int(parts[2]) * 60 * 1000
                + int(parts[3]) * 1000 + milliseconds

\* Competitor.convert_time_to_milliseconds; every exception returns 0
convert_time_to_milliseconds(time_str) ==
  IF time_str = <<>> \/ time_str = SENTINEL THEN 0
  ELSE
    LET dotted == \E i \in 1..Len(time_str) : time_str[i] = "."
        pieces == split(time_str, ".")
        time_part == IF dotted THEN pieces[1] ELSE time_str
        parts == split(time_part, ":")
        n == Len(parts)
    IN  IF dotted /\ Len(pieces) # 2 THEN 0
        ELSE IF dotted /\ ~IntOk(pieces[2]) THEN 0
        ELSE IF \E i \in 1..n : ~IntOk(parts[i]) THEN 0
        ELSE IF n > 3 THEN 0
        ELSE
          LET milliseconds == IF dotted THEN int(pieces[2]) ELSE 0
              hours == IF n = 3 THEN int(parts[1]) ELSE 0
              minutes == IF n = 3 THEN int(parts[2])
                         ELSE IF n = 2 THEN int(parts[1]) ELSE 0
              seconds == int(parts[n])
          IN  hours * 60 * 60 * 1000 + minutes * 60 * 1000
                + seconds * 1000 + milliseconds

\* Competitor.set_total_time
set_total_time(c, time_str) ==
  IF time_str # <<>> /\ time_str # SENTINEL
  THEN [c EXCEPT !.total_time = time_str,
                 !.total_time_milliseconds =
                     convert_time_to_milliseconds(time_str)]
  ELSE [c EXCEPT !.total_time = time_str, !.total_time_milliseconds = 0]

\* Competitor.set_best_time
set_best_time(c, time_str) ==
  IF time_str # <<>> /\ time_str # SENTINEL
  THEN [c EXCEPT !.best_time = time_str,
                 !.best_time_milliseconds =
                     convert_time_to_milliseconds(time_str)]
  ELSE [c EXCEPT !.best_time = time_str, !.best_time_milliseconds = 0]

(***************************************************************************)
(* The data model: Competitor, RaceClass, Session                          *)
(***************************************************************************)
\* Competitor(racer_id=racer_id): every other field at its default
Competitor(racer_id) ==
  [racer_id |-> racer_id, number |-> <<>>, transponder |-> <<>>,
   first_name |-> <<>>, last_name |-> <<>>, nationality |-> <<>>,
   additional_data |-> <<>>, category |-> <<>>,
   category_description |-> <<>>, position |-> <<>>, laps |-> <<>>,
   total_time |-> <<>>, total_time_milliseconds |-> 0,
   best_position |-> <<>>, best_lap |-> <<>>, best_time |-> <<>>,
   best_time_milliseconds |-> 0, last_lap_time |-> <<>>,
   last_split_time |-> <<>>, data_updated |-> FALSE,
   calculated_diff |-> <<>>, calculated_gap |-> <<>>,
   display_position |-> <<>>, sort_mode |-> 0]

RaceClass(class_id, description) ==
  [class_id |-> class_id, description |-> description]

\* Session(): the state of a freshly constructed session
NewSession ==
  [session_id |-> <<>>, session_name |-> <<>>, track_name |-> <<>>,
   track_length |-> <<>>, current_time |-> <<>>, session_time |-> <<>>,
   time_to_go |-> <<>>, laps_to_go |-> <<>>, flag_status |-> <<>>,
   sort_mode |-> "RACE", classes |-> <<>>, competitors |-> <<>>,
   sorted_competitors |-> <<>>]

\* position of a key in a dict (0 when absent)
CompetitorIndex(s, racer_id) ==
  IF \E i \in 1..Len(s.competitors) : s.competitors[i].racer_id = racer_id
  THEN CHOOSE i \in 1..Len(s.competitors) :
           s.competitors[i].racer_id = racer_id
  ELSE 0

ClassIndex(s, class_id) ==
  IF \E i \in 1..Len(s.classes) : s.classes[i].class_id = class_id
  THEN CHOOSE i \in 1..Len(s.classes) : s.classes[i].class_id = class_id
  ELSE 0

\* the Competitor object stored under a key: what get_competitor returns
\* and what a reference of sorted_competitors points to
Deref(s, racer_id) == s.competitors[CompetitorIndex(s, racer_id)]

\* Session.get_competitor: the session after the lookup (the key is added
\* with a default Competitor when it is absent)
\* a mutation of get_competitor: a competitor already in the map is
\* replaced by a new one
get_competitor_fresh(s, racer_id) ==
  IF CompetitorIndex(s, racer_id) = 0
  THEN [s EXCEPT !.competitors = Append(@, Competitor(racer_id))]
  ELSE [s EXCEPT !.competitors[CompetitorIndex(s, racer_id)] =
                   Competitor(racer_id)]

get_competitor(s, racer_id) ==
  IF CompetitorIndex(s, racer_id) = 0
  THEN [s EXCEPT !.competitors = Append(@, Competitor(racer_id))]
  ELSE s

(***************************************************************************)
(* Ordering engine                                                         *)
(***************************************************************************)
\* Session.get_position_number
get_position_number(position) ==
  IF position # <<>> /\ isdigit(position) /\ IntOk(position)
  THEN int(position) ELSE 9999

\* the laps of a competitor as the sort and the gap computation read them
laps_int(c) == IF isdigit(c.laps) THEN int(c.laps) ELSE 0

\* int(x.laps) if x.laps.isdigit() else 0 raises ValueError: the laps pass
\* isdigit() and int() rejects them
laps_raise(c) == isdigit(c.laps) /\ ~IntOk(c.laps)

\* v if v > 0 else float('inf'): <<0, v>> for a finite key, <<1, 0>> for inf
or_inf(v) == IF v > 0 THEN <<0, v>> ELSE <<1, 0>>

\* a mutation of the RACE key: the total time is used as it is, so that
\* a competitor without a time sorts first
race_key_zero_first(x) ==
  <<get_position_number(x.position), 0 - laps_int(x), 0,
    x.total_time_milliseconds>>

\* the sort keys of Session.sort_competitors, flattened to integer tuples
race_key(x) ==
  <<get_position_number(x.position), 0 - laps_int(x)>>
    \o or_inf(x.total_time_milliseconds)

\* a mutation of the QUALIFYING key: the best time is used as it is
qualifying_key_zero_first(x) ==
  <<0, x.best_time_milliseconds, get_position_number(x.best_position)>>

qualifying_key(x) ==
  or_inf(x.best_time_milliseconds)
    \o <<get_position_number(x.best_position)>>

\* Python's tuple comparison a < b
RECURSIVE tuple_less(_, _)
tuple_less(a, b) ==
  IF a = <<>> \/ b = <<>> THEN a = <<>> /\ b # <<>>
  ELSE IF Head(a) # Head(b) THEN Head(a) < Head(b)
       ELSE tuple_less(Tail(a), Tail(b))

sort_key(s, x) ==
  IF s.sort_mode = "QUALIFYING" THEN qualifying_key(x) ELSE race_key(x)

\* list.sort(key=...): stable, so x is inserted after every element whose
\* key is not greater than its own
RECURSIVE stable_insert(_, _, _)
stable_insert(s, sorted, x) ==
  IF sorted = <<>> THEN <<x>>
  ELSE IF tuple_less(sort_key(s, x), sort_key(s, Head(sorted)))
       THEN <<x>> \o sorted
       ELSE <<Head(sorted)>> \o stable_insert(s, Tail(sorted), x)

RECURSIVE stable_sort(_, _)
stable_sort(s, list) ==
  IF list = <<>> THEN <<>>
  ELSE stable_insert(s, stable_sort(s, SubSeq(list, 1, Len(list) - 1)),
                     list[Len(list)])

\* a mutation of sort_competitors: the list sorted is the list of the
\* previous batch instead of the values of the competitor map
sort_competitors_cached(s) ==
  LET previous == [i \in 1..Len(s.sorted_competitors) |->
                     Deref(s, s.sorted_competitors[i])]
      competitors_list == stable_sort(s, previous)
  IN  [s EXCEPT !.sorted_competitors =
         [i \in 1..Len(competitors_list) |-> competitors_list[i].racer_id]]

\* Session.sort_competitors
sort_competitors(s) ==
  LET competitors_list == stable_sort(s, s.competitors)
  IN  [s EXCEPT !.sorted_competitors =
         [i \in 1..Len(competitors_list) |-> competitors_list[i].racer_id]]

\* Session.sort_competitors raises: in race order the key of a competitor
\* reads int(x.laps), and the key is computed for every competitor
sort_competitors_raises(s) ==
  /\ s.sort_mode # "QUALIFYING"
  /\ \E i \in 1..Len(s.competitors) : laps_raise(s.competitors[i])

\* a mutation of _format_time_difference: the milliseconds are written
\* without their padding to three digits
format_time_difference_unpadded(time_diff_ms) ==
  IF time_diff_ms = 0 THEN <<>>
  ELSE
    LET hours == time_diff_ms \div (60 * 60 * 1000)
        minutes == (time_diff_ms % (60 * 60 * 1000)) \div (60 * 1000)
        seconds == (time_diff_ms % (60 * 1000)) \div 1000
        milliseconds == time_diff_ms % 1000
    IN  IF hours > 0
        THEN <<"+">> \o fmt02d(hours) \o <<":">> \o fmt02d(minutes)
               \o <<":">> \o fmt02d(seconds) \o <<".">>
               \o NatToStr(milliseconds)
        ELSE IF minutes > 0
        THEN <<"+">> \o fmt02d(minutes) \o <<":">> \o fmt02d(seconds)
               \o <<".">> \o NatToStr(milliseconds)
        ELSE <<"+">> \o fmt02d(seconds) \o <<".">> \o NatToStr(milliseconds)

\* Session._format_time_difference
format_time_difference(time_diff_ms) ==
  IF time_diff_ms = 0 THEN <<>>
  ELSE
    LET hours == time_diff_ms \div (60 * 60 * 1000)
        minutes == (time_diff_ms % (60 * 60 * 1000)) \div (60 * 1000)
        seconds == (time_diff_ms % (60 * 1000)) \div 1000
        milliseconds == time_diff_ms % 1000
    IN  IF hours > 0
        THEN <<"+">> \o fmt02d(hours) \o <<":">> \o fmt02d(minutes)
               \o <<":">> \o fmt02d(seconds) \o <<".">>
               \o fmt03d(milliseconds)
        ELSE IF minutes > 0
        THEN <<"+">> \o fmt02d(minutes) \o <<":">> \o fmt02d(seconds)
               \o <<".">> \o fmt03d(milliseconds)
        ELSE <<"+">> \o fmt02d(seconds) \o <<".">> \o fmt03d(milliseconds)

abs(n) == IF n < 0 THEN 0 - n ELSE n

\* a mutation of _calculate_time_difference: a lap difference is shown
\* whatever the time difference is
calculate_time_difference_laps_first(slower, faster, slower_best_lap_ms) ==
  IF faster.total_time_milliseconds = 0 THEN <<>>
  ELSE
    LET lap_diff == laps_int(faster) - laps_int(slower)
        time_diff_ms == slower.total_time_milliseconds
                          - faster.total_time_milliseconds
    IN  IF lap_diff > 0
        THEN IF lap_diff = 1
             THEN <<"+">> \o str(lap_diff) \o <<" ", "L", "A", "P">>
             ELSE <<"+">> \o str(lap_diff) \o <<" ", "L", "A", "P", "S">>
        ELSE format_time_difference(abs(time_diff_ms))

\* Session._calculate_time_difference
calculate_time_difference(slower, faster, slower_best_lap_ms) ==
  IF faster.total_time_milliseconds = 0 THEN <<>>
  ELSE
    LET lap_diff == laps_int(faster) - laps_int(slower)
        time_diff_ms == slower.total_time_milliseconds
                          - faster.total_time_milliseconds
    IN  IF lap_diff > 0 /\ slower_best_lap_ms > 0
             /\ time_diff_ms > slower_best_lap_ms
        THEN IF lap_diff = 1
             THEN <<"+">> \o str(lap_diff) \o <<" ", "L", "A", "P">>
             ELSE <<"+">> \o str(lap_diff) \o <<" ", "L", "A", "P", "S">>
        ELSE format_time_difference(abs(time_diff_ms))

\* a mutation of calculate_gaps_and_diffs: the leader is left as it is
calculate_gaps_and_diffs_leader_kept(s) ==
  LET sorted == s.sorted_competitors
      rank(c) == CHOOSE i \in 1..Len(sorted) : sorted[i] = c.racer_id
      update(c) ==
        IF \A i \in 1..Len(sorted) : sorted[i] # c.racer_id THEN c
        ELSE IF rank(c) = 1 THEN c
        ELSE IF c.total_time_milliseconds = 0
        THEN [c EXCEPT !.calculated_gap = <<>>, !.calculated_diff = <<>>]
        ELSE [c EXCEPT
                !.calculated_gap = calculate_time_difference(
                    c, Deref(s, sorted[rank(c) - 1]),
                    c.best_time_milliseconds),
                !.calculated_diff = calculate_time_difference(
                    c, Deref(s, sorted[1]), c.best_time_milliseconds)]
  IN  [s EXCEPT !.competitors =
         [i \in 1..Len(s.competitors) |-> update(s.competitors[i])]]

\* a mutation of calculate_gaps_and_diffs: the diff is taken to the
\* previous competitor, as the gap is
calculate_gaps_and_diffs_to_previous(s) ==
  LET sorted == s.sorted_competitors
      rank(c) == CHOOSE i \in 1..Len(sorted) : sorted[i] = c.racer_id
      update(c) ==
        IF \A i \in 1..Len(sorted) : sorted[i] # c.racer_id THEN c
        ELSE IF rank(c) = 1 \/ c.total_time_milliseconds = 0
        THEN [c EXCEPT !.calculated_gap = <<>>, !.calculated_diff = <<>>]
        ELSE [c EXCEPT
                !.calculated_gap = calculate_time_difference(
                    c, Deref(s, sorted[rank(c) - 1]),
                    c.best_time_milliseconds),
                !.calculated_diff = calculate_time_difference(
                    c, Deref(s, sorted[rank(c) - 1]),
                    c.best_time_milliseconds)]
  IN  [s EXCEPT !.competitors =
         [i \in 1..Len(s.competitors) |-> update(s.competitors[i])]]

\* Session.calculate_gaps_and_diffs.  The loop writes only calculated_gap
\* and calculated_diff and reads only laps and the millisecond fields, so
\* every iteration sees the values the objects had before the call.
calculate_gaps_and_diffs(s) ==
  LET sorted == s.sorted_competitors
      rank(c) == CHOOSE i \in 1..Len(sorted) : sorted[i] = c.racer_id
      update(c) ==
        IF \A i \in 1..Len(sorted) : sorted[i] # c.racer_id THEN c
        ELSE IF rank(c) = 1 \/ c.total_time_milliseconds = 0
        THEN [c EXCEPT !.calculated_gap = <<>>, !.calculated_diff = <<>>]
        ELSE [c EXCEPT
                !.calculated_gap = calculate_time_difference(
                    c, Deref(s, sorted[rank(c) - 1]),
                    c.best_time_milliseconds),
                !.calculated_diff = calculate_time_difference(
                    c, Deref(s, sorted[1]), c.best_time_milliseconds)]
  IN  [s EXCEPT !.competitors =
         [i \in 1..Len(s.competitors) |-> update(s.competitors[i])]]

\* Session._calculate_time_difference raises: the faster competitor has a
\* total time and the laps of one of the two raise
calculate_time_difference_raises(slower, faster) ==
  /\ faster.total_time_milliseconds # 0
  /\ (laps_raise(slower) \/ laps_raise(faster))

\* the ranks at which the loop of calculate_gaps_and_diffs would raise
raising_ranks(s) ==
  {i \in 2..Len(s.sorted_competitors) :
     LET current == Deref(s, s.sorted_competitors[i])
     IN  /\ current.total_time_milliseconds # 0
         /\ \/ calculate_time_difference_raises(
                  current, Deref(s, s.sorted_competitors[i - 1]))
            \/ calculate_time_difference_raises(
                  current, Deref(s, s.sorted_competitors[1]))}

\* Session.calculate_gaps_and_diffs up to the iteration that raises: the
\* ranks before it are written, and at that rank the gap is written when
\* only the diff raises
calculate_gaps_and_diffs_interrupted(s) ==
  LET sorted == s.sorted_competitors
      stop == CHOOSE i \in raising_ranks(s) :
                \A j \in raising_ranks(s) : i <= j
      rank(c) == CHOOSE i \in 1..Len(sorted) : sorted[i] = c.racer_id
      update(c) ==
        IF \A i \in 1..Len(sorted) : sorted[i] # c.racer_id THEN c
        ELSE IF rank(c) > stop THEN c
        ELSE IF rank(c) = stop
        THEN IF calculate_time_difference_raises(
                  c, Deref(s, sorted[rank(c) - 1]))
             THEN c
             ELSE [c EXCEPT !.calculated_gap = calculate_time_difference(
                               c, Deref(s, sorted[rank(c) - 1]),
                               c.best_time_milliseconds)]
        ELSE IF rank(c) = 1 \/ c.total_time_milliseconds = 0
        THEN [c EXCEPT !.calculated_gap = <<>>, !.calculated_diff = <<>>]
        ELSE [c EXCEPT
                !.calculated_gap = calculate_time_difference(
                    c, Deref(s, sorted[rank(c) - 1]),
                    c.best_time_milliseconds),
                !.calculated_diff = calculate_time_difference(
                    c, Deref(s, sorted[1]), c.best_time_milliseconds)]
  IN  [s EXCEPT !.competitors =
         [i \in 1..Len(s.competitors) |-> update(s.competitors[i])]]

\* a mutation of reset_session: the sort mode returns to its default too
reset_session_all(s) ==
  [s EXCEPT !.classes = <<>>, !.competitors = <<>>,
            !.session_id = <<>>, !.session_name = <<>>,
            !.track_name = <<>>, !.current_time = <<>>,
            !.session_time = <<>>, !.time_to_go = <<>>,
            !.laps_to_go = <<>>, !.flag_status = <<>>,
            !.sort_mode = "RACE", !.sorted_competitors = <<>>]

\* Session.reset_session
reset_session(s) ==
  [s EXCEPT !.classes = <<>>, !.competitors = <<>>,
            !.session_id = <<>>, !.session_name = <<>>,
            !.track_name = <<>>, !.current_time = <<>>,
            !.session_time = <<>>, !.time_to_go = <<>>,
            !.laps_to_go = <<>>, !.flag_status = <<>>,
            !.sorted_competitors = <<>>]

(***************************************************************************)
(* RaceTimingHandler: the per-tag handlers.  Each maps the session before  *)
(* the record to the session after it; elements is the list of fields.     *)
(***************************************************************************)
\* the session after the attributes of a Competitor object were assigned:
\* c is the object with its new attribute values
assigned(s, c) ==
  [s EXCEPT !.competitors[CompetitorIndex(s, c.racer_id)] = c]

handle_race_progress_data(s, elements) ==
  IF Len(elements) >= 6
  THEN [s EXCEPT !.laps_to_go = elements[2], !.time_to_go = elements[3],
                 !.current_time = elements[4],
                 !.session_time = elements[5],
                 !.flag_status = strip(elements[6])]
  ELSE s

handle_driver_data(s, elements) ==
  IF Len(elements) >= 8
  THEN LET s1 == get_competitor(s, elements[2])
           c == Deref(s1, elements[2])
           competitor ==
             [c EXCEPT !.number = elements[3], !.transponder = elements[4],
                       !.first_name = elements[5],
                       !.last_name = elements[6],
                       !.nationality = elements[7],
                       !.category = elements[8]]
       IN  assigned(s1, competitor)
  ELSE s

handle_race_session_data(s, elements) ==
  IF Len(elements) >= 3
  THEN [s EXCEPT !.session_id = elements[2], !.session_name = elements[3]]
  ELSE s

handle_race_class_data(s, elements) ==
  IF Len(elements) >= 3
  THEN LET race_class == RaceClass(elements[2], elements[3])
           i == ClassIndex(s, elements[2])
       IN  IF i = 0 THEN [s EXCEPT !.classes = Append(@, race_class)]
           ELSE [s EXCEPT !.classes[i] = race_class]
  ELSE s

handle_extended_driver_data(s, elements) ==
  IF Len(elements) >= 8
  THEN LET s1 == get_competitor(s, elements[2])
           c == Deref(s1, elements[2])
           competitor ==
             [c EXCEPT !.number = elements[3], !.category = elements[4],
                       !.first_name = elements[5],
                       !.last_name = elements[6],
                       !.nationality = elements[7],
                       !.additional_data = elements[8]]
       IN  assigned(s1, competitor)
  ELSE s

TRACKNAME == <<"T", "R", "A", "C", "K", "N", "A", "M", "E">>

TRACKLENGTH == <<"T", "R", "A", "C", "K", "L", "E", "N", "G", "T", "H">>

handle_track_data(s, elements) ==
  IF Len(elements) >= 3
  THEN IF elements[2] = TRACKNAME
       THEN [s EXCEPT !.track_name = elements[3]]
       ELSE IF elements[2] = TRACKLENGTH
       THEN [s EXCEPT !.track_length = elements[3]]
       ELSE s
  ELSE s

\* a mutation of handle_race_position_data: the guard asks for 3 fields,
\* so a record of 3 or 4 fields reaches get_competitor before the missing
\* field raises
handle_race_position_data_guard3(s, elements) ==
  IF Len(elements) >= 5
  THEN LET s1 == get_competitor(s, elements[3])
           c == Deref(s1, elements[3])
           new_position == elements[2]
           new_laps == elements[4]
           new_total_time == elements[5]
           competitor ==
             set_total_time(
               [c EXCEPT !.data_updated =
                           @ \/ c.position # new_position
                             \/ c.laps # new_laps
                             \/ c.total_time # new_total_time,
                         !.position = new_position,
                         !.laps = new_laps],
               new_total_time)
       IN  assigned(s1, competitor)
  ELSE IF Len(elements) >= 3 THEN get_competitor(s, elements[3])
  ELSE s

handle_race_position_data(s, elements) ==
  IF Len(elements) >= 5
  THEN LET s1 == get_competitor(s, elements[3])
           c == Deref(s1, elements[3])
           new_position == elements[2]
           new_laps == elements[4]
           new_total_time == elements[5]
           competitor ==
             set_total_time(
               [c EXCEPT !.data_updated =
                           @ \/ c.position # new_position
                             \/ c.laps # new_laps
                             \/ c.total_time # new_total_time,
                         !.position = new_position,
                         !.laps = new_laps],
               new_total_time)
       IN  assigned(s1, competitor)
  ELSE s

handle_best_lap_time_data(s, elements) ==
  IF Len(elements) >= 5
  THEN LET s1 == get_competitor(s, elements[3])
           c == Deref(s1, elements[3])
           new_best_position == elements[2]
           new_best_lap == elements[4]
           new_best_time == elements[5]
           competitor ==
             set_best_time(
               [c EXCEPT !.data_updated =
                           @ \/ c.best_position # new_best_position
                             \/ c.best_lap # new_best_lap
                             \/ c.best_time # new_best_time,
                         !.best_position = new_best_position,
                         !.best_lap = new_best_lap],
               new_best_time)
       IN  assigned(s1, competitor)
  ELSE s

handle_reset_data(s) == reset_session(s)

\* a mutation of handle_last_lap_time_data: the record of a racer the map
\* does not hold is dropped
handle_last_lap_time_data_known(s, elements) ==
  IF Len(elements) >= 4 /\ CompetitorIndex(s, elements[2]) # 0
  THEN LET c == Deref(s, elements[2])
           competitor ==
             [set_total_time([c EXCEPT !.last_lap_time = elements[3]],
                             elements[4])
                EXCEPT !.data_updated = TRUE]
       IN  assigned(s, competitor)
  ELSE s

handle_last_lap_time_data(s, elements) ==
  IF Len(elements) >= 4
  THEN LET s1 == get_competitor(s, elements[2])
           c == Deref(s1, elements[2])
           competitor ==
             [set_total_time([c EXCEPT !.last_lap_time = elements[3]],
                             elements[4])
                EXCEPT !.data_updated = TRUE]
       IN  assigned(s1, competitor)
  ELSE s

QUALIFYING_WORD == <<"q", "u", "a", "l", "i", "f", "y", "i", "n", "g">>

\* a mutation of handle_sort_mode_data: a value other than "qualifying"
\* leaves the mode as it is
handle_sort_mode_data_sticky(s, elements) ==
  IF Len(elements) >= 2
  THEN IF elements[2] = QUALIFYING_WORD
       THEN [s EXCEPT !.sort_mode = "QUALIFYING"]
       ELSE s
  ELSE s

handle_sort_mode_data(s, elements) ==
  IF Len(elements) >= 2
  THEN IF elements[2] = QUALIFYING_WORD
       THEN [s EXCEPT !.sort_mode = "QUALIFYING"]
       ELSE [s EXCEPT !.sort_mode = "RACE"]
  ELSE s

(***************************************************************************)
(* RaceTimingHandler.process_data and handle_session_update                *)
(***************************************************************************)
\* a mutation of the match statement: a tag that begins with $G is taken
\* for $G
dispatch_prefix(s, elements) ==
  LET command == elements[1]
  IN  CASE command = <<"$", "F">> -> handle_race_progress_data(s, elements)
        [] command = <<"$", "A">> -> handle_driver_data(s, elements)
        [] command = <<"$", "B">> -> handle_race_session_data(s, elements)
        [] command = <<"$", "C">> -> handle_race_class_data(s, elements)
        [] command = <<"$", "C", "O", "M", "P">> ->
             handle_extended_driver_data(s, elements)
        [] command = <<"$", "E">> -> handle_track_data(s, elements)
        [] Len(command) >= 2 /\ SubSeq(command, 1, 2) = <<"$", "G">> ->
             handle_race_position_data(s, elements)
        [] command = <<"$", "H">> -> handle_best_lap_time_data(s, elements)
        [] command = <<"$", "I">> -> handle_reset_data(s)
        [] command = <<"$", "J">> -> handle_last_lap_time_data(s, elements)
        [] command = <<"$", "R", "M", "S">> ->
             handle_sort_mode_data(s, elements)
        [] OTHER -> s

\* the match statement of process_data: exact match on the command tag,
\* no case for any other tag
dispatch(s, elements) ==
  LET command == elements[1]
  IN  CASE command = <<"$", "F">> -> handle_race_progress_data(s, elements)
        [] command = <<"$", "A">> -> handle_driver_data(s, elements)
        [] command = <<"$", "B">> -> handle_race_session_data(s, elements)
        [] command = <<"$", "C">> -> handle_race_class_data(s, elements)
        [] command = <<"$", "C", "O", "M", "P">> ->
             handle_extended_driver_data(s, elements)
        [] command = <<"$", "E">> -> handle_track_data(s, elements)
        [] command = <<"$", "G">> -> handle_race_position_data(s, elements)
        [] command = <<"$", "H">> -> handle_best_lap_time_data(s, elements)
        [] command = <<"$", "I">> -> handle_reset_data(s)
        [] command = <<"$", "J">> -> handle_last_lap_time_data(s, elements)
        [] command = <<"$", "R", "M", "S">> ->
             handle_sort_mode_data(s, elements)
        [] OTHER -> s

\* elements = [element.replace('"', '') for element in line.split(',')]
parse_line(line) ==
  LET raw == split(line, ",")
  IN  [i \in 1..Len(raw) |-> remove_char(raw[i], "\"")]

\* one iteration of the line loop of process_data on the pair
\* (session, data_updated).  No handler raises: each guards its indices by
\* the field count and the time codec catches its own errors, so the
\* except branch is never entered and data_updated is set for every line
\* that is not blank.
process_line(st, line) ==
  IF strip(line) = <<>> THEN st
  ELSE [session |-> dispatch(st.session, parse_line(line)),
        data_updated |-> TRUE]

RECURSIVE process_lines(_, _)
process_lines(st, lines) ==
  IF lines = <<>> THEN st
  ELSE process_lines(process_line(st, Head(lines)), Tail(lines))

\* the line loop of process_data: the session and the local data_updated
\* after the last line of the frame
process_frame(s, data) ==
  process_lines([session |-> s, data_updated |-> FALSE],
                split(strip(data), "\n"))

\* one row of the competitors table (column "#" is the field Num)
competitor_row(c, i) ==
  LET full == strip(c.first_name \o <<" ">> \o c.last_name)
      dash(v) == IF v # <<>> THEN v ELSE <<"-">>
  IN  [Pos |-> IF c.position # <<>> THEN c.position ELSE str(i),
       Num |-> c.number,
       Name |-> IF full # <<>> THEN full
                ELSE <<"D", "r", "i", "v", "e", "r", " ">> \o c.racer_id,
       Laps |-> c.laps,
       Time |-> dash(c.total_time),
       Best |-> dash(c.best_time),
       Diff |-> dash(c.calculated_diff),
       Gap |-> dash(c.calculated_gap),
       RacerID |-> c.racer_id,
       Transponder |-> c.transponder,
       Category |-> c.category,
       CategoryDesc |-> c.category_description,
       BestLap |-> c.best_lap,
       LastLap |-> c.last_lap_time]

\* a mutation of handle_session_update: data_updated is left as the
\* records set it
update_competitors_flags_kept(s) ==
  LET s2 == calculate_gaps_and_diffs(sort_competitors(s))
      sorted == s2.sorted_competitors
  IN  [session |-> s2,
       df |-> [i \in 1..Len(sorted) |->
                 competitor_row(Deref(s2, sorted[i]), i)]]

\* handle_session_update up to the assignment of self.competitors_df:
\* sort, gaps and diffs, the rows, and data_updated cleared on every
\* competitor of sorted_competitors
update_competitors(s) ==
  LET s2 == calculate_gaps_and_diffs(sort_competitors(s))
      sorted == s2.sorted_competitors
      listed(c) == \E i \in 1..Len(sorted) : sorted[i] = c.racer_id
  IN  [session |->
         [s2 EXCEPT !.competitors =
            [i \in 1..Len(s2.competitors) |->
               IF listed(s2.competitors[i])
               THEN [s2.competitors[i] EXCEPT !.data_updated = FALSE]
               ELSE s2.competitors[i]]],
       df |-> [i \in 1..Len(sorted) |->
                 competitor_row(Deref(s2, sorted[i]), i)]]

\* handle_session_update when its sort or its gap computation raises
\* (raised): nothing in handle_session_update or process_data catches it,
\* no table is built and no data_updated is cleared
handle_session_update_interrupted(s) ==
  IF sort_competitors_raises(s) THEN [raised |-> TRUE, session |-> s]
  ELSE IF raising_ranks(sort_competitors(s)) # {}
  THEN [raised |-> TRUE,
        session |-> calculate_gaps_and_diffs_interrupted(
                      sort_competitors(s))]
  ELSE [raised |-> FALSE, session |-> s]

\* handle_session_update: the one-row session table
session_table(s) ==
  <<[SessionID |-> s.session_id, SessionName |-> s.session_name,
     TrackName |-> s.track_name, TrackLength |-> s.track_length,
     CurrentTime |-> s.current_time, SessionTime |-> s.session_time,
     TimeToGo |-> s.time_to_go, LapsToGo |-> s.laps_to_go,
     FlagStatus |-> s.flag_status, SortMode |-> s.sort_mode]>>

(***************************************************************************)
(* Frames received from the server                                         *)
(***************************************************************************)
\* $B with session id and name
LineB ==
  <<"$", "B", ",", "S", "1", ",", "P", "r", "a", "c", "t", "i", "c", "e">>

\* $E with the track length
LineE ==
  <<"$", "E", ",", "T", "R", "A", "C", "K", "L", "E", "N", "G", "T", "H",
    ",", "4", "3", "0", "9">>

\* $F with a padded flag
LineF ==
  <<"$", "F", ",", "9", ",", "0", "0", ":", "1", "0", ",", "1", "2", ":",
    "0", "0", ",", "0", "0", ":", "0", "5", ",", "G", "r", "e", "e", "n",
    " ">>

\* $C with one class
LineC ==
  <<"$", "C", ",", "A", ",", "P", "r", "o">>

\* $G for racer 2, quoted field
LineG ==
  <<"$", "G", ",", "1", ",", "\"", "2", "\"", ",", "1", "0", ",", "0",
    "0", ":", "2", "0", ".", "5", "0", "0">>

\* $G below its minimum of 5 fields
LineGShort ==
  <<"$", "G", ",", "b", "r", "o", "k", "e", "n">>

\* $I
LineI ==
  <<"$", "I">>

\* $RMS selecting QUALIFYING
LineRMSQ ==
  <<"$", "R", "M", "S", ",", "q", "u", "a", "l", "i", "f", "y", "i", "n",
    "g">>

\* a line of white space
LineBlank ==
  <<" ">>

\* the records of the batch specification
LinePool ==
  {LineB, LineE, LineF, LineC, LineG, LineGShort, LineI, LineRMSQ}

\* "\n".join(lines)
RECURSIVE join_lines(_)
join_lines(lines) ==
  IF Len(lines) = 1 THEN lines[1]
  ELSE lines[1] \o <<"\n">> \o join_lines(Tail(lines))

\* every text frame of one to MaxLines records of the pool
Frames ==
  {join_lines(ls) : ls \in UNION {[1..n -> LinePool] : n \in 1..MaxLines}}

\* $A for racer 1
LineA ==
  <<"$", "A", ",", "1", ",", "1", "1", ",", "T", "1", ",", "A", "y", "r",
    "t", "o", "n", ",", "S", "e", "n", "n", "a", ",", "B", "R", ",", "A">>

\* $G for racer 1
LineG1 ==
  <<"$", "G", ",", "1", ",", "1", ",", "1", "0", ",", "0", "0", ":", "2",
    "0", ":", "0", "0", ".", "0", "0", "0">>

\* $G for racer 2
LineG2 ==
  <<"$", "G", ",", "2", ",", "2", ",", "1", "0", ",", "0", "0", ":", "2",
    "0", ":", "0", "1", ".", "0", "0", "0">>

\* $H for racer 2
LineH ==
  <<"$", "H", ",", "1", ",", "2", ",", "8", ",", "0", "0", ":", "0", "1",
    ":", "2", "8", ".", "1", "0", "0">>

\* $F with 5 fields
ShortF ==
  <<"$", "F", ",", "9", ",", "0", "0", ":", "1", "0", ",", "1", "2", ":",
    "0", "0", ",", "0", "0", ":", "0", "5">>

\* $A with 7 fields
ShortA ==
  <<"$", "A", ",", "3", ",", "3", "3", ",", "T", "3", ",", "A", "l", "a",
    "i", "n", ",", "P", "r", "o", "s", "t", ",", "F", "R">>

\* $B with 2 fields
ShortB ==
  <<"$", "B", ",", "S", "2">>

\* $C with 2 fields
ShortC ==
  <<"$", "C", ",", "B">>

\* $COMP with 7 fields
ShortCOMP ==
  <<"$", "C", "O", "M", "P", ",", "3", ",", "3", "3", ",", "B", ",", "A",
    "l", "a", "i", "n", ",", "P", "r", "o", "s", "t", ",", "F", "R">>

\* $E with 2 fields
ShortE ==
  <<"$", "E", ",", "T", "R", "A", "C", "K", "N", "A", "M", "E">>

\* $G with 4 fields
ShortG ==
  <<"$", "G", ",", "1", ",", "3", ",", "1", "0">>

\* $H with 4 fields
ShortH ==
  <<"$", "H", ",", "1", ",", "3", ",", "8">>

\* $J with 3 fields
ShortJ ==
  <<"$", "J", ",", "3", ",", "0", "0", ":", "0", "1", ":", "3", "0", ".",
    "0", "0", "0">>

\* $RMS with 1 field
ShortRMS ==
  <<"$", "R", "M", "S">>

\* records that meet the minimum field count of their tag
ValidLines == {LineA, LineG1, LineG2, LineH}

\* records below the minimum field count of their tag, one for each tag
\* that has a minimum above one
ShortLines ==
  {ShortF, ShortA, ShortB, ShortC, ShortCOMP, ShortE, ShortG, ShortH,
   ShortJ, ShortRMS, LineGShort}

\* frames of three records, the second of them too short
ShortFrames ==
  {join_lines(<<v1, s, v2>>) :
     v1 \in ValidLines, s \in ShortLines, v2 \in ValidLines}

\* $A for racer 2
LineA2 ==
  <<"$", "A", ",", "2", ",", "2", "2", ",", "T", "2", ",", "A", "l", "a",
    "i", "n", ",", "P", "r", "o", "s", "t", ",", "F", "R", ",", "A">>

\* $G for racer 2, two and a half seconds behind racer 1
LineG2S ==
  <<"$", "G", ",", "2", ",", "2", ",", "1", "0", ",", "0", "0", ":", "2",
    "0", ":", "0", "2", ".", "5", "0", "0">>

\* $G for racer 3
LineG3 ==
  <<"$", "G", ",", "3", ",", "3", ",", "1", "0", ",", "0", "0", ":", "2",
    "0", ":", "0", "1", ".", "5", "0", "0">>

\* $G for racer 3: position 1 and a total time of zero
LineGZero ==
  <<"$", "G", ",", "1", ",", "3", ",", "1", "0", ",", "0", "0", ":", "0",
    "0", ":", "0", "0", ".", "0", "0", "0">>

\* $G for racer 4: no position and a total time that is no time
LineGDNF ==
  <<"$", "G", ",", ",", "4", ",", "9", ",", "D", "N", "F">>

\* $G for racer 2: position 1 and one more lap
LineGLap ==
  <<"$", "G", ",", "1", ",", "2", ",", "1", "1", ",", "0", "0", ":", "2",
    "2", ":", "0", "0", ".", "0", "0", "0">>

\* $H for racer 1
LineH1 ==
  <<"$", "H", ",", "1", ",", "1", ",", "9", ",", "0", "0", ":", "0", "1",
    ":", "2", "9", ".", "5", "0", "0">>

\* $H for racer 2, best position 2
LineH2 ==
  <<"$", "H", ",", "2", ",", "2", ",", "8", ",", "0", "0", ":", "0", "1",
    ":", "2", "8", ".", "1", "0", "0">>

\* $H for racer 3: best position 1 and the sentinel as best time
LineHSentinel ==
  <<"$", "H", ",", "1", ",", "3", ",", "0", ",", "0", "0", ":", "5", "9",
    ":", "5", "9", ".", "9", "9", "9">>

\* $J for racer 3
LineJ ==
  <<"$", "J", ",", "3", ",", "0", "0", ":", "0", "1", ":", "3", "0", ".",
    "0", "0", "0", ",", "0", "0", ":", "2", "0", ":", "0", "3", ".", "0",
    "0", "0">>

\* $RMS selecting RACE
LineRMSR ==
  <<"$", "R", "M", "S", ",", "r", "a", "c", "e">>

\* a record of a tag the protocol does not have
LineX ==
  <<"$", "X", ",", "1", ",", "2">>

\* a record whose tag begins like $G
LineGG ==
  <<"$", "G", "G", ",", "1", ",", "3", ",", "1", "0", ",", "0", "0", ":",
    "2", "0", ":", "0", "0", ".", "0", "0", "0">>

\* $H for racer 2: a best lap of 1:35
LineH2Slow ==
  <<"$", "H", ",", "2", ",", "2", ",", "4", ",", "0", "0", ":", "0", "1",
    ":", "3", "5", ".", "0", "0", "0">>

\* $G for racer 2, one lap down
LineG2Lap ==
  <<"$", "G", ",", "2", ",", "2", ",", "9", ",", "0", "0", ":", "2", "2",
    ":", "0", "0", ".", "0", "0", "0">>

\* $H for racer 3: a best lap of 1:35
LineH3 ==
  <<"$", "H", ",", "3", ",", "3", ",", "4", ",", "0", "0", ":", "0", "1",
    ":", "3", "5", ".", "0", "0", "0">>

\* $G for racer 3, two laps down
LineG3Lap ==
  <<"$", "G", ",", "3", ",", "3", ",", "8", ",", "0", "0", ":", "2", "3",
    ":", "3", "0", ".", "0", "0", "0">>

\* the leader on lap 10, racer 2 one lap down and racer 3 two laps down
LapsDown ==
  join_lines(<<LineG1, LineH2Slow, LineG2Lap, LineH3, LineG3Lap>>)

\* the frame of the two-car race: both drivers and their $G records
RaceFrame == join_lines(<<LineA, LineA2, LineG1, LineG2S>>)

\* the best laps of both cars and the switch to QUALIFYING
QualFrame == join_lines(<<LineH2, LineH1, LineRMSQ>>)

\* three cars on the same lap
ThreeCars == join_lines(<<LineG1, LineG2, LineG3>>)

\* $I followed by a further record
ResetThen == join_lines(<<LineI, LineG3>>)

\* two cars in position 1 with the same laps, one in position 2 and one
\* without a position
RaceTies == join_lines(<<LineGDNF, LineGZero, LineG1, LineG2>>)

\* QUALIFYING with one best time and two cars without one
QualTies == join_lines(<<LineG1, LineHSentinel, LineH, LineRMSQ>>)

\* a record of an unknown tag between two $G records
UnknownBetween == join_lines(<<LineG1, LineGG, LineG2>>)

\* the frames of the records specification: single records and batches
RecordFrames ==
  {LineG, LineG3, LineGZero, LineGLap, LineH, LineJ, LineRMSQ, LineRMSR,
   LineI, LineX, LineGG, RaceFrame, QualFrame, ThreeCars, ResetThen,
   RaceTies, QualTies, UnknownBetween, LapsDown}

\* $G whose laps are the one character U+00B2
LineGSuper ==
  <<"$", "G", ",", "1", ",", "1", ",", SuperscriptTwo, ",", "0", "0", ":",
    "2", "0", ":", "0", "0", ".", "0", "0", "0">>

\* $G whose total time has a minus sign in the minutes
LineGMinus ==
  <<"$", "G", ",", "1", ",", "1", ",", "1", "0", ",", "0", "0", ":", "-",
    "0", "1", ":", "0", "0", ".", "0", "0", "0">>

\* $H whose best time has a minus sign in the milliseconds
LineHMinus ==
  <<"$", "H", ",", "1", ",", "1", ",", "9", ",", "0", "0", ":", "0", "0",
    ":", "0", "0", ".", "-", "5", "0", "0">>

\* $B whose name has a double quote inside
LineBInner ==
  <<"$", "B", ",", "5", ",", "P", "r", "a", "\"", "c", "t", "i", "c", "e">>

\* $B whose name has one double quote, at its start
LineBLone ==
  <<"$", "B", ",", "5", ",", "\"", "R", "a", "c", "e">>

\* $B whose fields are enclosed in double quotes
LineBQuoted ==
  <<"$", "B", ",", "\"", "5", "\"", ",", "\"", "R", "a", "c", "e", "\"">>

\* the frames of the fields specification: records with unusual text in
\* a field, and plain records around them
FieldFrames ==
  {LineGSuper, LineGMinus, LineHMinus, LineBInner, LineBLone, LineBQuoted,
   LineA, LineG1, LineG2, LineI}

(***************************************************************************)
(* State                                                                   *)
(***************************************************************************)
VARIABLES
  session,         \* RaceTimingHandler.session
  competitors_df,  \* RaceTimingHandler.competitors_df: the rows, in order
  session_df,      \* RaceTimingHandler.session_df: the rows (none or one)
  websocket,       \* RaceTimingHandler.websocket: 0 is None, else the
                   \* number of the WebSocketApp
  running,         \* RaceTimingHandler.running
  listen_thread,   \* RaceTimingHandler.listen_thread: 0 is None, else the
                   \* number of the Thread
  thread,          \* where the listener thread of each connect call is
  closed,          \* per WebSocketApp: close() was called on it or its
                   \* run_forever has torn the socket down
  error_log,       \* per listener: the kind of error that reached it last
                   \* ("callback": an exception that left on_message)
  caller,          \* the caller's context: "ready", or "closing" and then
                   \* "joining" inside disconnect
  last_call,       \* the call of the caller that returned last
  connect_outcome, \* per connect call: how the call ended for the caller
  nconnects,       \* number of connect calls made
  nframes,         \* number of text frames delivered to on_message
  frame,           \* the payload on_message is working on (NoFrame when
                   \* on_message has returned)
  session_in,      \* the session as it was when the on_message that is
                   \* working was entered (the session itself when none is)
  snapshot,        \* the pair of tables of the last batch whose
                   \* handle_session_update has returned
  seen,            \* what the caller got when it last read the two tables
  probe,           \* a time string handed to the time codec on its own,
                   \* with the results of the two conversions (NoProbe
                   \* when the codec is only used through the records)
  retrieval        \* one call of GetLinkAndKey or of
                   \* RaceMonitorKeyRetriever.get_link_and_key: its
                   \* argument, its locals and how far it has got
                   \* (stage "idle" when no call has been made)

vars ==
  <<session, competitors_df, session_df, websocket, running, listen_thread,
    thread, closed, error_log, caller, last_call, connect_outcome,
    nconnects, nframes, frame, session_in, snapshot, seen, probe,
                 retrieval>>

Workers == 1..MaxConnects

\* Thread.is_alive(): started and not yet returned from run_forever
Alive(w) ==
  thread[w] \in {"starting", "receiving", "publishing", "errored"}

NoFrame == <<>>

NotRead == [read |-> FALSE]

NoProbe == [stage |-> "none"]

\* RaceTimingHandler.__init__
Init ==
  /\ session = NewSession
  /\ competitors_df = <<>>
  /\ session_df = <<>>
  /\ websocket = 0
  /\ running = FALSE
  /\ listen_thread = 0
  /\ thread = [w \in Workers |-> "unborn"]
  /\ closed = [w \in Workers |-> FALSE]
  /\ error_log = [w \in Workers |-> "none"]
  /\ caller = "ready"
  /\ last_call = "none"
  /\ connect_outcome = [w \in Workers |-> "none"]
  /\ nconnects = 0
  /\ nframes = 0
  /\ frame = NoFrame
  /\ session_in = NewSession
  /\ snapshot = <<<<>>, <<>>>>
  /\ seen = NotRead
  /\ probe = NoProbe
  /\ retrieval = [stage |-> "idle"]

data_vars ==
  <<session, competitors_df, session_df, nframes, frame, session_in,
    snapshot>>

(***************************************************************************)
(* The caller's context                                                    *)
(***************************************************************************)
\* connect: the WebSocketApp is built, running is set and the listener
\* thread is started.  Nothing in it tests running or listen_thread.
Connect ==
  /\ caller = "ready"
  /\ nconnects < MaxConnects
  /\ nconnects' = nconnects + 1
  /\ websocket' = nconnects + 1
  /\ running' = TRUE
  /\ listen_thread' = nconnects + 1
  /\ thread' = [thread EXCEPT ![nconnects + 1] = "starting"]
  /\ last_call' = "connect"
  /\ connect_outcome' =
       [connect_outcome EXCEPT ![nconnects + 1] = "returned"]
  /\ UNCHANGED <<closed, error_log, caller, seen, probe,
                 retrieval>>
  /\ UNCHANGED data_vars

\* connect when Thread.start() raises: the except branch logs the error,
\* clears running, and connect returns normally
ConnectStartFails ==
  /\ caller = "ready"
  /\ nconnects < MaxConnects
  /\ nconnects' = nconnects + 1
  /\ websocket' = nconnects + 1
  /\ running' = FALSE
  /\ listen_thread' = nconnects + 1
  /\ last_call' = "connect"
  /\ connect_outcome' =
       [connect_outcome EXCEPT ![nconnects + 1] = "error_logged"]
  /\ UNCHANGED <<thread, closed, error_log, caller, seen, probe,
                 retrieval>>
  /\ UNCHANGED data_vars

\* disconnect, its first statement: running is cleared.  The listener
\* threads run between this statement and the next one.
Disconnect ==
  /\ caller = "ready"
  /\ running' = FALSE
  /\ caller' = "closing"
  /\ UNCHANGED <<websocket, listen_thread, thread, closed, error_log,
                 last_call, connect_outcome, nconnects, seen, probe,
                 retrieval>>
  /\ UNCHANGED data_vars

\* disconnect, its second statement: the current WebSocketApp, if any, is
\* closed
DisconnectClose ==
  /\ caller = "closing"
  /\ closed' = IF websocket # 0 THEN [closed EXCEPT ![websocket] = TRUE]
               ELSE closed
  /\ caller' = "joining"
  /\ UNCHANGED <<websocket, running, listen_thread, thread, error_log,
                 last_call, connect_outcome, nconnects, seen, probe,
                 retrieval>>
  /\ UNCHANGED data_vars

\* disconnect from the join to its return: join() is made only when
\* listen_thread is set and alive, and returns when that thread has ended
DisconnectReturn ==
  /\ caller = "joining"
  /\ IF listen_thread = 0 THEN TRUE ELSE ~Alive(listen_thread)
  /\ caller' = "ready"
  /\ last_call' = "disconnect"
  /\ UNCHANGED <<websocket, running, listen_thread, thread, closed,
                 error_log, connect_outcome, nconnects, seen, probe,
                 retrieval>>
  /\ UNCHANGED data_vars

\* the caller reads the two snapshot tables
ReadTables ==
  /\ caller = "ready"
  /\ seen' = [read |-> TRUE, competitors_df |-> competitors_df,
              session_df |-> session_df, previous |-> snapshot,
              next |-> <<competitors_df, session_table(session)>>]
  /\ UNCHANGED <<websocket, running, listen_thread, thread, closed,
                 error_log, caller, last_call, connect_outcome, nconnects,
                 probe, retrieval>>
  /\ UNCHANGED data_vars

(***************************************************************************)
(* The listener thread: WebSocketApp.run_forever and the callbacks         *)
(***************************************************************************)
life_vars ==
  <<websocket, listen_thread, caller, last_call, connect_outcome,
    nconnects, seen, probe,
                 retrieval>>

\* run_forever has opened the connection and waits for frames
Open(w) ==
  /\ thread[w] = "starting"
  /\ ~closed[w]
  /\ thread' = [thread EXCEPT ![w] = "receiving"]
  /\ UNCHANGED <<running, closed, error_log>>
  /\ UNCHANGED life_vars
  /\ UNCHANGED data_vars

\* on_error: the body of the callback, as its effect on running
on_error(r) == r

\* run_forever could not open the connection: on_error logs the error
OpenFails(w) ==
  /\ thread[w] = "starting"
  /\ thread' = [thread EXCEPT ![w] = "errored"]
  /\ error_log' = [error_log EXCEPT ![w] = "handshake"]
  /\ running' = on_error(running)
  /\ UNCHANGED closed
  /\ UNCHANGED life_vars
  /\ UNCHANGED data_vars

\* on_message: process_data up to the assignment of competitors_df, or up
\* to the exception that handle_session_update raises, which leaves
\* process_data and on_message ("callback" in error_log)
OnMessage(w, data) ==
  /\ thread[w] = "receiving"
  /\ ~closed[w]
  /\ nframes < MaxFrames
  /\ nframes' = nframes + 1
  /\ LET r == process_frame(session, data)
         u == update_competitors(r.session)
         x == handle_session_update_interrupted(r.session)
     IN  IF r.data_updated /\ x.raised
         THEN /\ frame' = NoFrame
              /\ session_in' = x.session
              /\ session' = x.session
              /\ error_log' = [error_log EXCEPT ![w] = "callback"]
              /\ UNCHANGED <<competitors_df, thread>>
         ELSE IF r.data_updated
         THEN /\ frame' = data
              /\ session_in' = session
              /\ session' = u.session
              /\ competitors_df' = u.df
              /\ thread' = [thread EXCEPT ![w] = "publishing"]
              /\ UNCHANGED error_log
         ELSE /\ frame' = NoFrame
              /\ session_in' = r.session
              /\ session' = r.session
              /\ UNCHANGED <<competitors_df, thread, error_log>>
  /\ UNCHANGED <<session_df, snapshot, running, closed>>
  /\ UNCHANGED life_vars

\* the rest of handle_session_update: the assignment of session_df, after
\* which on_message returns
PublishSession(w) ==
  /\ thread[w] = "publishing"
  /\ session_df' = session_table(session)
  /\ thread' = [thread EXCEPT ![w] = "receiving"]
  /\ frame' = NoFrame
  /\ session_in' = session
  /\ snapshot' = <<competitors_df, session_table(session)>>
  /\ UNCHANGED <<session, competitors_df, nframes, running, closed,
                 error_log>>
  /\ UNCHANGED life_vars

\* a transport error while receiving: on_error logs the error
OnError(w) ==
  /\ thread[w] = "receiving"
  /\ thread' = [thread EXCEPT ![w] = "errored"]
  /\ error_log' = [error_log EXCEPT ![w] = "transport"]
  /\ running' = on_error(running)
  /\ UNCHANGED closed
  /\ UNCHANGED life_vars
  /\ UNCHANGED data_vars

\* a mutation of on_close: the callback only logs
on_close_keeps_running(r) == r

\* on_close: the body of the callback, as its effect on running
on_close(r) == FALSE

\* run_forever ends (after an error, after close(), or because the server
\* closed): the socket is torn down, on_close runs and the thread returns
OnClose(w) ==
  /\ \/ thread[w] \in {"receiving", "errored"}
     \/ thread[w] = "starting" /\ closed[w]
  /\ closed' = [closed EXCEPT ![w] = TRUE]
  /\ running' = on_close(running)
  /\ thread' = [thread EXCEPT ![w] = "exited"]
  /\ UNCHANGED error_log
  /\ UNCHANGED life_vars
  /\ UNCHANGED data_vars

(***************************************************************************)
(* Specifications                                                          *)
(***************************************************************************)
\* the frames of the lifecycle specification: one that changes both
\* tables, one whose only record is too short, one that is blank
LifeFrames == {join_lines(<<LineB, LineG>>), LineGShort, LineBlank}

\* the whole client: the caller and every listener thread it started
Next ==
  \/ Connect
  \/ ConnectStartFails
  \/ Disconnect
  \/ DisconnectClose
  \/ DisconnectReturn
  \/ ReadTables
  \/ \E w \in Workers : Open(w)
  \/ \E w \in Workers : OpenFails(w)
  \/ \E w \in Workers : \E data \in LifeFrames : OnMessage(w, data)
  \/ \E w \in Workers : PublishSession(w)
  \/ \E w \in Workers : OnError(w)
  \/ \E w \in Workers : OnClose(w)

Spec == Init /\ [][Next]_vars

\* one connected client: connect has returned and listener 1 is receiving
InitBatch ==
  /\ session = NewSession
  /\ competitors_df = <<>>
  /\ session_df = <<>>
  /\ websocket = 1
  /\ running = TRUE
  /\ listen_thread = 1
  /\ thread = [w \in Workers |-> IF w = 1 THEN "receiving" ELSE "unborn"]
  /\ closed = [w \in Workers |-> FALSE]
  /\ error_log = [w \in Workers |-> "none"]
  /\ caller = "ready"
  /\ last_call = "connect"
  /\ connect_outcome =
       [w \in Workers |-> IF w = 1 THEN "returned" ELSE "none"]
  /\ nconnects = 1
  /\ nframes = 0
  /\ frame = NoFrame
  /\ session_in = NewSession
  /\ snapshot = <<<<>>, <<>>>>
  /\ seen = NotRead
  /\ probe = NoProbe
  /\ retrieval = [stage |-> "idle"]

\* the listener of a connected client processing frames of the pool
NextBatch ==
  \/ \E data \in Frames : OnMessage(1, data)
  \/ PublishSession(1)

SpecBatch == InitBatch /\ [][NextBatch]_vars

\* the listener of a connected client processing frames that hold a
\* record below its minimum field count
NextShort ==
  \/ \E data \in ShortFrames : OnMessage(1, data)
  \/ PublishSession(1)

SpecShort == InitBatch /\ [][NextShort]_vars

\* the listener of a connected client processing timing records, mode
\* switches, resets and records of unknown tags
NextRecords ==
  \/ \E data \in RecordFrames : OnMessage(1, data)
  \/ PublishSession(1)

SpecRecords == InitBatch /\ [][NextRecords]_vars

\* the listener of a connected client processing the frames of
\* FieldFrames
NextFields ==
  \/ \E data \in FieldFrames : OnMessage(1, data)
  \/ PublishSession(1)

SpecFields == InitBatch /\ [][NextFields]_vars

(***************************************************************************)
(* Key retrieval: GetLinkAndKey and RaceMonitorKeyRetriever                *)
(***************************************************************************)
\* Python values a race_id can be
PyNone == [type |-> "NoneType"]

PyStr(text) == [type |-> "str", text |-> text]

PyInt(number) == [type |-> "int", number |-> number]

\* not race_id: None, the empty string and the integer 0 are false
falsy(v) ==
  CASE v.type = "NoneType" -> TRUE
    [] v.type = "str" -> v.text = <<>>
    [] v.type = "int" -> v.number = 0

\* the text an f-string writes for {race_id}
format_value(v) ==
  CASE v.type = "NoneType" -> <<"N", "o", "n", "e">>
    [] v.type = "str" -> v.text
    [] v.type = "int" -> str(v.number)

\* the race_id arguments of a call
RaceIdArgs ==
  {PyNone, PyStr(<<>>), PyStr(<<"4", "2">>), PyStr(<<"4", "x">>),
   PyInt(42), PyInt(0)}

\* what the user types at the prompt "RaceID= "
PromptInputs == {<<"4", "2">>, <<"7">>, <<"4", "x">>, <<>>}

\* everything but the retrieval
key_frame ==
  <<session, competitors_df, session_df, websocket, running, listen_thread,
    thread, closed, error_log, caller, last_call, connect_outcome,
    nconnects, nframes, frame, session_in, snapshot, seen, probe>>

\* GetLinkAndKey up to the navigation: the checks of race_id
GetLinkAndKey(arg, entered) ==
  /\ retrieval.stage = "idle"
  /\ UNCHANGED key_frame
  /\ retrieval' =
       IF falsy(arg)
       THEN [stage |-> "navigating", fn |-> "GetLinkAndKey", arg |-> arg,
             race_id |-> PyStr(entered), validated |-> PyStr(entered),
             navigated |-> FALSE]
       ELSE IF arg.type = "int"
       THEN [stage |-> "navigating", fn |-> "GetLinkAndKey", arg |-> arg,
             race_id |-> PyStr(str(arg.number)),
             validated |-> PyStr(str(arg.number)), navigated |-> FALSE]
       ELSE [stage |-> "returned", fn |-> "GetLinkAndKey", arg |-> arg,
             race_id |-> arg, validated |-> arg, navigated |-> FALSE,
             result |-> <<"None", "None">>]

\* RaceMonitorKeyRetriever.validate_race_id: the value its own race_id
\* holds at the end; it returns nothing
validate_race_id(arg, entered) ==
  LET given == IF falsy(arg) THEN PyStr(entered) ELSE arg
  IN  IF given.type = "int" THEN PyStr(str(given.number)) ELSE given

\* RaceMonitorKeyRetriever.get_link_and_key up to the navigation: the
\* call of validate_race_id, which raises ValueError for a string that
\* is not made of digits, and after which race_id is still the argument
get_link_and_key(arg, entered) ==
  /\ retrieval.stage = "idle"
  /\ UNCHANGED key_frame
  /\ retrieval' =
       IF ~isdigit(validate_race_id(arg, entered).text)
       THEN [stage |-> "raised", fn |-> "get_link_and_key", arg |-> arg,
             race_id |-> arg,
             validated |-> validate_race_id(arg, entered),
             navigated |-> FALSE, error |-> "ValueError"]
       ELSE [stage |-> "navigating", fn |-> "get_link_and_key",
             arg |-> arg, race_id |-> arg,
             validated |-> validate_race_id(arg, entered),
             navigated |-> FALSE]

\* driver.get and the wait for the page: GetLinkAndKey returns
\* (None, None) on a timeout or an error, get_link_and_key raises
Navigate(outcome) ==
  /\ retrieval.stage = "navigating"
  /\ UNCHANGED key_frame
  /\ LET went == [fn |-> retrieval.fn, arg |-> retrieval.arg,
                  race_id |-> retrieval.race_id,
                  validated |-> retrieval.validated, navigated |-> TRUE,
                  url_id |-> format_value(retrieval.race_id)]
     IN  retrieval' =
           IF outcome = "loaded"
           THEN went @@ [stage |-> "extracting"]
           ELSE IF retrieval.fn = "GetLinkAndKey"
           THEN went @@ [stage |-> "returned", result |-> <<"None", "None">>]
           ELSE went @@ [stage |-> "raised",
                         error |-> IF outcome = "timeout"
                                   THEN "TimeoutException"
                                   ELSE "TypeError"]

\* the search of the performance logs, which hold or not a message with
\* the wss:// link ("link") and one with the Sec-WebSocket-Key ("key"):
\* json.loads(None) raises when no message holds the link, key_message is
\* unbound when none holds the key
Extract(logs) ==
  /\ retrieval.stage = "extracting"
  /\ UNCHANGED key_frame
  /\ LET had == [fn |-> retrieval.fn, arg |-> retrieval.arg,
                 race_id |-> retrieval.race_id,
                 validated |-> retrieval.validated, navigated |-> TRUE,
                 url_id |-> retrieval.url_id]
     IN  retrieval' =
           IF "link" \notin logs
           THEN had @@ [stage |-> "raised", error |-> "TypeError"]
           ELSE IF "key" \notin logs
           THEN had @@ [stage |-> "raised", error |-> "UnboundLocalError"]
           ELSE had @@ [stage |-> "returned", result |-> <<"wss_link", "wss_key">>]

\* one call of either retrieval, from its arguments to its result
NextKey ==
  \/ \E arg \in RaceIdArgs : \E entered \in PromptInputs :
       GetLinkAndKey(arg, entered)
  \/ \E arg \in RaceIdArgs : \E entered \in PromptInputs :
       get_link_and_key(arg, entered)
  \/ \E outcome \in {"loaded", "timeout", "error"} : Navigate(outcome)
  \/ \E logs \in SUBSET {"link", "key"} : Extract(logs)

SpecKey == Init /\ [][NextKey]_vars

\* the components of the time strings handed to the codec
Hours == {0, 1, 23}

Minutes == {0, 1, 59}

Seconds == {0, 1, 59}

Millis == {0, 1, 999}

\* the text HH:MM:SS.mmm of a time
MakeTime(h, m, sec, ms) ==
  fmt02d(h) \o <<":">> \o fmt02d(m) \o <<":">> \o fmt02d(sec) \o <<".">>
    \o fmt03d(ms)

ValidTimes ==
  {MakeTime(h, m, sec, ms) :
     h \in Hours, m \in Minutes, sec \in Seconds, ms \in Millis}

\* a handler that has received nothing and a time string for the codec
InitCodec ==
  /\ session = NewSession
  /\ competitors_df = <<>>
  /\ session_df = <<>>
  /\ websocket = 0
  /\ running = FALSE
  /\ listen_thread = 0
  /\ thread = [w \in Workers |-> "unborn"]
  /\ closed = [w \in Workers |-> FALSE]
  /\ error_log = [w \in Workers |-> "none"]
  /\ caller = "ready"
  /\ last_call = "none"
  /\ connect_outcome = [w \in Workers |-> "none"]
  /\ nconnects = 0
  /\ nframes = 0
  /\ frame = NoFrame
  /\ session_in = NewSession
  /\ snapshot = <<<<>>, <<>>>>
  /\ seen = NotRead
  /\ probe \in {[stage |-> "input", time_str |-> t] : t \in ValidTimes}
  /\ retrieval = [stage |-> "idle"]

codec_frame ==
  <<session, competitors_df, session_df, websocket, running, listen_thread,
    thread, closed, error_log, caller, last_call, connect_outcome,
    nconnects, nframes, frame, session_in, snapshot, seen, retrieval>>

\* Competitor.convert_time_to_milliseconds applied to the string
ConvertTime ==
  /\ probe.stage = "input"
  /\ probe' = [stage |-> "converted", time_str |-> probe.time_str,
               total_ms |-> convert_time_to_milliseconds(probe.time_str)]
  /\ UNCHANGED codec_frame

\* Session._format_time_difference applied to the milliseconds
FormatDifference ==
  /\ probe.stage = "converted"
  /\ probe' = [stage |-> "formatted", time_str |-> probe.time_str,
               total_ms |-> probe.total_ms,
               text |-> format_time_difference(probe.total_ms)]
  /\ UNCHANGED codec_frame

NextCodec ==
  \/ ConvertTime
  \/ FormatDifference

SpecCodec == InitCodec /\ [][NextCodec]_vars

(***************************************************************************)
(* Vocabulary of the properties                                            *)
(***************************************************************************)
\* the lines process_data iterates over
lines_of(data) == split(strip(data), "\n")

\* the minimum field count the protocol gives for each tag
MinFields(tag) ==
  CASE tag = <<"$", "F">> -> 6
    [] tag = <<"$", "A">> -> 8
    [] tag = <<"$", "B">> -> 3
    [] tag = <<"$", "C">> -> 3
    [] tag = <<"$", "C", "O", "M", "P">> -> 8
    [] tag = <<"$", "E">> -> 3
    [] tag = <<"$", "G">> -> 5
    [] tag = <<"$", "H">> -> 5
    [] tag = <<"$", "I">> -> 1
    [] tag = <<"$", "J">> -> 4
    [] tag = <<"$", "R", "M", "S">> -> 2
    [] OTHER -> 0

\* the line is a record of a known tag below the minimum of that tag
IsShort(line) ==
  LET elements == parse_line(line)
  IN  strip(line) # <<>> /\ Len(elements) < MinFields(elements[1])

\* the line is a record of a known tag with the fields the tag asks for
IsAccepted(line) ==
  LET elements == parse_line(line)
      least == MinFields(elements[1])
  IN  strip(line) # <<>> /\ least > 0 /\ Len(elements) >= least

\* the line is a record whose tag is none of the 11 tags of the protocol
IsUnknown(line) ==
  strip(line) # <<>> /\ MinFields(parse_line(line)[1]) = 0

\* the line is a timing record ($G, $H or $J) with the fields its tag
\* asks for
IsTiming(line) ==
  IsAccepted(line)
    /\ parse_line(line)[1] \in {<<"$", "G">>, <<"$", "H">>, <<"$", "J">>}

\* the racer id a timing record names: field 1 of $J, field 2 of $G and $H
NamedRacer(elements) ==
  IF elements[1] = <<"$", "J">> THEN elements[2] ELSE elements[3]

\* the fields of a Competitor a timing record supplies, with the value it
\* supplies for each
Supplied(elements) ==
  CASE elements[1] = <<"$", "G">> ->
         [position |-> elements[2], laps |-> elements[4],
          total_time |-> elements[5]]
    [] elements[1] = <<"$", "H">> ->
         [best_position |-> elements[2], best_lap |-> elements[4],
          best_time |-> elements[5]]
    [] elements[1] = <<"$", "J">> ->
         [last_lap_time |-> elements[3], total_time |-> elements[4]]

\* the fields a handler derives from the ones a record supplies
Derived ==
  {"total_time_milliseconds", "best_time_milliseconds", "data_updated"}

\* pos_key of the ordering rules: the number a position string of digits
\* writes, 9999 for any other string
PosKey(position) ==
  IF position # <<>> /\ \A i \in 1..Len(position) : position[i] \in Digits
  THEN DigitsToNat(position) ELSE 9999

\* the laps a competitor has completed: the number its laps string of
\* digits writes, 0 for any other string
LapsDone(c) ==
  IF c.laps # <<>> /\ \A i \in 1..Len(c.laps) : c.laps[i] \in Digits
  THEN DigitsToNat(c.laps) ELSE 0

\* a time of ta milliseconds is no later than one of tb, where 0 stands
\* for no time at all and is later than every time
NoLater(ta, tb) == IF tb > 0 THEN ta > 0 /\ ta <= tb ELSE TRUE

\* the competitor at rank i of sorted_competitors
Ranked(s, i) == Deref(s, s.sorted_competitors[i])

\* the milliseconds a calculated_diff of the form +[HH:][MM:]SS.mmm
\* stands for; the empty diff stands for none
DiffMs(text) ==
  IF text = <<>> THEN 0 ELSE convert_time_to_milliseconds(Tail(text))

\* a simple race: at least two competitors, all with the same laps and a
\* positive total time
SimpleRace(s) ==
  /\ Len(s.sorted_competitors) >= 2
  /\ \A i \in 1..Len(s.competitors) :
       /\ LapsDone(s.competitors[i]) = LapsDone(s.competitors[1])
       /\ s.competitors[i].total_time_milliseconds > 0

\* the calculated_diff values do not decrease along sorted_competitors
DiffsAscend(s) ==
  \A i \in 1..(Len(s.sorted_competitors) - 1) :
    DiffMs(Ranked(s, i).calculated_diff)
      <= DiffMs(Ranked(s, i + 1).calculated_diff)

\* the total times do not decrease along sorted_competitors
TimesAscend(s) ==
  \A i \in 1..(Len(s.sorted_competitors) - 1) :
    Ranked(s, i).total_time_milliseconds
      <= Ranked(s, i + 1).total_time_milliseconds

\* the session after the two-car race frame on a fresh handler
AfterRaceFrame ==
  update_competitors(process_frame(NewSession, RaceFrame).session).session

\* a string of digits
AllDigits(s) == s # <<>> /\ \A i \in 1..Len(s) : s[i] \in Digits

\* the text is a time [[HH:]MM:]SS[.mmm] written with digits
PlainTime(text) ==
  LET pieces == split(text, ".")
      groups == split(pieces[1], ":")
  IN  /\ Len(pieces) \in {1, 2}
      /\ Len(pieces) = 2 => AllDigits(pieces[2])
      /\ Len(groups) \in 1..3
      /\ \A i \in 1..Len(groups) : AllDigits(groups[i])

\* the text has a digit other than 0
HasNonZeroDigit(text) ==
  \E i \in 1..Len(text) : text[i] \in Digits \ {"0"}

\* the text has no digit at all
HasNoDigit(text) == \A i \in 1..Len(text) : text[i] \notin Digits

\* the time fields of the competitors of a session, each with its
\* milliseconds
TimeFields(s) ==
  {<<s.competitors[i].total_time,
     s.competitors[i].total_time_milliseconds>> :
       i \in 1..Len(s.competitors)}
  \cup
  {<<s.competitors[i].best_time,
     s.competitors[i].best_time_milliseconds>> :
       i \in 1..Len(s.competitors)}

\* diff_against of the gap rules: nothing when the faster competitor has
\* no total time; "+1 LAP" or "+n LAPS" when the faster one has n more
\* laps, the slower one has a best time and is behind by more than that
\* best time; else the formatted absolute difference of the total times
DiffAgainst(slower, faster) ==
  LET lap_diff == LapsDone(faster) - LapsDone(slower)
      behind == slower.total_time_milliseconds
                  - faster.total_time_milliseconds
  IN  IF faster.total_time_milliseconds = 0 THEN <<>>
      ELSE IF lap_diff > 0 /\ slower.best_time_milliseconds > 0
                /\ behind > slower.best_time_milliseconds
      THEN IF lap_diff = 1 THEN <<"+", "1", " ", "L", "A", "P">>
           ELSE <<"+">> \o NatToStr(lap_diff)
                  \o <<" ", "L", "A", "P", "S">>
      ELSE format_time_difference(IF behind < 0 THEN 0 - behind ELSE behind)

\* a field without its enclosing double quotes: the first and the last
\* character are removed when both are double quotes, and nothing else is
Unquote(field) ==
  IF Len(field) >= 2 /\ field[1] = "\"" /\ field[Len(field)] = "\""
  THEN SubSeq(field, 2, Len(field) - 1)
  ELSE field

AnyAccepted(data) ==
  \E i \in 1..Len(lines_of(data)) : IsAccepted(lines_of(data)[i])

\* the last record of the frame is $I
LastRecordIsReset(data) ==
  parse_line(lines_of(data)[Len(lines_of(data))])[1] = <<"$", "I">>

\* the session and data_updated after the first n lines of the frame
AfterLines(s, data, n) ==
  process_lines([session |-> s, data_updated |-> FALSE],
                SubSeq(lines_of(data), 1, n))

ScalarsEmpty(s) ==
  /\ s.session_id = <<>>
  /\ s.session_name = <<>>
  /\ s.track_name = <<>>
  /\ s.track_length = <<>>
  /\ s.current_time = <<>>
  /\ s.session_time = <<>>
  /\ s.time_to_go = <<>>
  /\ s.laps_to_go = <<>>
  /\ s.flag_status = <<>>

(***************************************************************************)
(* Properties                                                              *)
(***************************************************************************)
\* C1: once a frame whose last record is $I has been processed, the
\* competitor map and the class map are empty and all nine Session scalars
\* are the empty string.
C1_ResetClearsSession ==
  \A w \in Workers :
    (thread[w] = "publishing" /\ LastRecordIsReset(frame)) =>
      /\ session.competitors = <<>>
      /\ session.classes = <<>>
      /\ ScalarsEmpty(session)

\* C2: processing $I leaves sort_mode as the records before it in the
\* frame left it and empties both maps; after the frame
\* "$RMS,qualifying", "$I" sort_mode is QUALIFYING.
C2_ResetKeepsSortMode ==
  \A w \in Workers :
    (thread[w] = "publishing" /\ LastRecordIsReset(frame)) =>
      LET n == Len(lines_of(frame))
          before == AfterLines(session_in, frame, n - 1).session
      IN  /\ session.sort_mode = before.sort_mode
          /\ session.competitors = <<>>
          /\ session.classes = <<>>
          /\ (frame = join_lines(<<LineRMSQ, LineI>>) =>
                session.sort_mode = "QUALIFYING")

\* a $I frame processed in QUALIFYING mode after a snapshot that listed a
\* competitor: the mode is still QUALIFYING and the competitors are gone
C2_Witness ==
  /\ frame = LineI
  /\ thread[1] = "publishing"
  /\ session_in.competitors # <<>>
  /\ session_in.sort_mode = "QUALIFYING"
  /\ session.sort_mode = "QUALIFYING"
  /\ session.competitors = <<>>

\* C3: the pair of tables a caller reads is the pair of one batch: that
\* of the last batch published in full, or that of the batch whose
\* publication is under way.
C3_ReaderSeesOneBatch ==
  seen.read =>
    <<seen.competitors_df, seen.session_df>> \in {seen.previous, seen.next}

\* C4: a connect call made while running is TRUE changes neither
\* websocket, listen_thread nor running and starts no thread.
C4_ConnectIdempotent ==
  [][(nconnects' # nconnects /\ running) =>
       UNCHANGED <<websocket, listen_thread, running, thread>>]_vars

\* C5: at most one listener thread is alive at any time (so no two
\* executions of process_data can interleave).
C5_SingleWorker == Cardinality({w \in Workers : Alive(w)}) <= 1

\* C6: when disconnect has returned, running is FALSE, the socket is
\* closed and no listener thread started by connect is alive.
C6_DisconnectStopsWorker ==
  (last_call = "disconnect" /\ caller = "ready") =>
    /\ ~running
    /\ websocket # 0 => closed[websocket]
    /\ \A w \in Workers : ~Alive(w)

\* C7: a connect call whose connection could not be established ends with
\* the error raised to its caller.
C7_ConnectFailureSurfaced ==
  \A w \in Workers :
    (connect_outcome[w] = "error_logged" \/ error_log[w] = "handshake") =>
      connect_outcome[w] = "raised"

C9_SnapshotOnlyWhenAccepted ==
  \A w \in Workers : thread[w] = "publishing" => AnyAccepted(frame)

\* C10: a record below the minimum field count of its tag leaves the
\* session as it was when the record was reached, and the frame has the
\* effect of the same frame without that record.
C10_ShortRecordSkipped ==
  \A w \in Workers :
    thread[w] = "publishing" =>
      LET ls == lines_of(frame)
          short == {i \in 1..Len(ls) : IsShort(ls[i])}
          start == [session |-> session_in, data_updated |-> FALSE]
          r == process_lines(start, SelectSeq(ls, LAMBDA l : ~IsShort(l)))
          u == update_competitors(r.session)
      IN  short # {} =>
            /\ \A i \in short :
                 LET reached == process_lines(start, SubSeq(ls, 1, i - 1))
                 IN  process_line(reached, ls[i]).session
                       = reached.session
            /\ session = u.session
            /\ competitors_df = u.df

\* the frame "$G,1,1,10,00:20:00.000", "$G,broken",
\* "$G,2,2,10,00:20:01.000" was processed: both racers are listed and the
\* second is one second behind
C10_Witness ==
  /\ frame = join_lines(<<LineG1, LineGShort, LineG2>>)
  /\ Len(competitors_df) = 2
  /\ competitors_df[1].RacerID = <<"1">>
  /\ competitors_df[2].RacerID = <<"2">>
  /\ competitors_df[2].Gap = <<"+", "0", "1", ".", "0", "0", "0">>
  /\ Len(session.competitors) = 2

\* C11: a record whose tag is none of the 11 known tags raises no error
\* (the line counts as processed) and leaves the Session scalars, the
\* competitor map, the class map and sort_mode as they were when the
\* record was reached.
C11_UnknownTagIgnored ==
  \A w \in Workers :
    thread[w] = "publishing" =>
      LET ls == lines_of(frame)
          start == [session |-> session_in, data_updated |-> FALSE]
      IN  \A i \in 1..Len(ls) :
            IsUnknown(ls[i]) =>
              LET reached == process_lines(start, SubSeq(ls, 1, i - 1))
                  after == process_line(reached, ls[i])
              IN  /\ after.data_updated
                  /\ after.session.competitors = reached.session.competitors
                  /\ after.session.classes = reached.session.classes
                  /\ after.session.sort_mode = reached.session.sort_mode
                  /\ session_table(after.session)
                       = session_table(reached.session)

\* the frame with "$GG,1,3,10,00:20:00.000" between the $G records of
\* racers 1 and 2 was processed: racers 1 and 2 are listed, racer 3 is
\* not
C11_Witness ==
  /\ thread[1] = "publishing"
  /\ frame = UnknownBetween
  /\ Len(session.competitors) = 2
  /\ CompetitorIndex(session, <<"1">>) # 0
  /\ CompetitorIndex(session, <<"2">>) # 0
  /\ CompetitorIndex(session, <<"3">>) = 0

\* C12: after a $G, $H or $J record that meets its minimum field count and
\* names racer X, X is a key of the competitor map (once), the competitor
\* under X carries the fields the record supplies, and when X was absent
\* every other field is that of Competitor(racer_id=X).
C12_Upsert ==
  \A w \in Workers :
    thread[w] = "publishing" =>
      LET ls == lines_of(frame)
          start == [session |-> session_in, data_updated |-> FALSE]
      IN  \A i \in 1..Len(ls) :
            IsTiming(ls[i]) =>
              LET reached ==
                    process_lines(start, SubSeq(ls, 1, i - 1)).session
                  after == process_line(
                    [session |-> reached, data_updated |-> FALSE],
                    ls[i]).session
                  elements == parse_line(ls[i])
                  X == NamedRacer(elements)
                  given == Supplied(elements)
                  held == {k \in 1..Len(after.competitors) :
                             after.competitors[k].racer_id = X}
              IN  /\ Cardinality(held) = 1
                  /\ \A k \in held :
                       /\ \A f \in DOMAIN given :
                            after.competitors[k][f] = given[f]
                       /\ CompetitorIndex(reached, X) = 0 =>
                            \A f \in (DOMAIN Competitor(X)
                                        \ DOMAIN given) \ Derived :
                              after.competitors[k][f] = Competitor(X)[f]

\* "$J,3,00:01:30.000,00:20:03.000" was processed on a session that did
\* not hold racer 3: racer 3 is now in the map with the lap time and the
\* total time of the record
C12_Witness ==
  /\ thread[1] = "publishing"
  /\ frame = LineJ
  /\ session_in.competitors # <<>>
  /\ CompetitorIndex(session_in, <<"3">>) = 0
  /\ CompetitorIndex(session, <<"3">>) # 0
  /\ Deref(session, <<"3">>).last_lap_time
       = <<"0", "0", ":", "0", "1", ":", "3", "0", ".", "0", "0", "0">>
  /\ Deref(session, <<"3">>).total_time_milliseconds = 1203000

\* C13: in every state of the listener, so after every completed call of
\* process_data, sorted_competitors is a permutation of the values of the
\* competitor map: same cardinality, every member a competitor of the map,
\* no member twice.
C13_SortedIsPermutation ==
  LET sorted == session.sorted_competitors
  IN  /\ Len(sorted) = Len(session.competitors)
      /\ \A i \in 1..Len(sorted) :
           CompetitorIndex(session, sorted[i]) # 0
      /\ \A i, j \in 1..Len(sorted) : sorted[i] = sorted[j] => i = j

\* the frame "$I", "$G,3,3,10,00:20:01.500" was processed on a session of
\* two listed racers: racer 3 alone is in the map and in
\* sorted_competitors
C13_Witness ==
  /\ thread[1] = "publishing"
  /\ frame = ResetThen
  /\ Len(session_in.sorted_competitors) = 2
  /\ Len(session.competitors) = 1
  /\ session.sorted_competitors = <<(<<"3">>)>>

\* C14: in RACE mode, for competitors A before B in sorted_competitors:
\* pos_key(B) is not below pos_key(A) (so a smaller numeric position comes
\* first and every position of key 9999 comes after the numeric ones
\* below 9999); with equal position keys A has at least the laps of B;
\* with equal laps too, A's total time is no later than B's, a total of 0
\* counting as later than every time.
C14_RaceOrder ==
  session.sort_mode = "RACE" =>
    \A i, j \in 1..Len(session.sorted_competitors) :
      i < j =>
        LET A == Ranked(session, i)
            B == Ranked(session, j)
        IN  /\ PosKey(A.position) <= PosKey(B.position)
            /\ PosKey(A.position) = PosKey(B.position) =>
                 /\ LapsDone(A) >= LapsDone(B)
                 /\ LapsDone(A) = LapsDone(B) =>
                      NoLater(A.total_time_milliseconds,
                              B.total_time_milliseconds)

\* RACE mode after the frame of racer 4 (no position), racer 3 (position
\* 1, no time), racer 1 (position 1) and racer 2 (position 2): racer 1
\* leads racer 3, then racer 2, then racer 4
C14_Witness ==
  /\ thread[1] = "publishing"
  /\ frame = RaceTies
  /\ session.sort_mode = "RACE"
  /\ session.sorted_competitors
       = <<(<<"1">>), (<<"3">>), (<<"2">>), (<<"4">>)>>

\* C15: in QUALIFYING mode, for competitors A before B in
\* sorted_competitors: when B has a positive best time, A has a positive
\* best time that is not larger (so every competitor with best time 0
\* comes after every one with a positive best time); when both best times
\* are equal or both are 0, pos_key(best_position) of B is not below
\* that of A.
C15_QualifyingOrder ==
  session.sort_mode = "QUALIFYING" =>
    \A i, j \in 1..Len(session.sorted_competitors) :
      i < j =>
        LET A == Ranked(session, i)
            B == Ranked(session, j)
        IN  /\ NoLater(A.best_time_milliseconds, B.best_time_milliseconds)
            /\ NoLater(B.best_time_milliseconds,
                       A.best_time_milliseconds) =>
                 PosKey(A.best_position) <= PosKey(B.best_position)

\* QUALIFYING mode after the frame of racer 1 (no best lap), racer 3 (best
\* position 1, sentinel best time) and racer 2 (a best time): racer 2
\* leads, racer 3 is ahead of racer 1 by its best position
C15_Witness ==
  /\ thread[1] = "publishing"
  /\ frame = QualTies
  /\ session.sort_mode = "QUALIFYING"
  /\ session.sorted_competitors = <<(<<"2">>), (<<"3">>), (<<"1">>)>>
  /\ Deref(session, <<"3">>).best_time_milliseconds = 0
  /\ Deref(session, <<"2">>).best_time_milliseconds = 88100

\* C16: whenever sorted_competitors is not empty, its first competitor has
\* an empty calculated_gap and an empty calculated_diff, whatever they
\* were in an earlier batch, and the first row of the competitors table
\* shows "-" in Diff and Gap.
C16_LeaderHasNoGap ==
  /\ session.sorted_competitors # <<>> =>
       /\ Ranked(session, 1).calculated_gap = <<>>
       /\ Ranked(session, 1).calculated_diff = <<>>
  /\ competitors_df # <<>> =>
       /\ competitors_df[1].Diff = <<"-">>
       /\ competitors_df[1].Gap = <<"-">>

\* racer 2, which was 2.5 s behind racer 1 after the batch before, leads
\* after "$G,1,2,10,00:20.500" and has no gap and no diff
C16_Witness ==
  /\ thread[1] = "publishing"
  /\ frame = LineG
  /\ CompetitorIndex(session_in, <<"2">>) # 0
  /\ Deref(session_in, <<"2">>).calculated_gap
       = <<"+", "0", "2", ".", "5", "0", "0">>
  /\ session.sorted_competitors[1] = <<"2">>
  /\ Deref(session, <<"2">>).calculated_gap = <<>>
  /\ Deref(session, <<"2">>).calculated_diff = <<>>
  /\ competitors_df[1].RacerID = <<"2">>
  /\ competitors_df[1].Gap = <<"-">>

\* C17 as stated: when all competitors have equal laps and a positive
\* total time, the differences to the leader written in calculated_diff do
\* not decrease along sorted_competitors, whatever the positions and the
\* total times are.
C17_DiffsAscendAnyPositions ==
  SimpleRace(session) => DiffsAscend(session)

\* C17 amended: when all competitors have equal laps and a positive total
\* time, and their total times do not decrease along sorted_competitors
\* (the positions agree with the times), the differences to the leader
\* written in calculated_diff do not decrease along sorted_competitors.
C17_DiffsAscend ==
  (SimpleRace(session) /\ TimesAscend(session)) => DiffsAscend(session)

\* three cars on lap 10 in positions 1, 2, 3 with totals 20:00.000,
\* 20:01.000 and 20:01.500: the diffs are none, +01.000 and +01.500
C17_Witness ==
  /\ thread[1] = "publishing"
  /\ frame = ThreeCars
  /\ SimpleRace(session)
  /\ session.sorted_competitors = <<(<<"1">>), (<<"2">>), (<<"3">>)>>
  /\ Ranked(session, 2).calculated_diff
       = <<"+", "0", "1", ".", "0", "0", "0">>
  /\ Ranked(session, 3).calculated_diff
       = <<"+", "0", "1", ".", "5", "0", "0">>

\* C18: after the two-car race frame, the frame "$H,2,2,8,00:01:28.100",
\* "$H,1,1,9,00:01:29.500", "$RMS,qualifying" gives the order racer 2,
\* racer 1 and the Diff +01.400 on the row of racer 1, which is the
\* difference of the two best lap times.
C18_QualifyingReorder ==
  (thread[1] = "publishing" /\ frame = QualFrame
     /\ session_in = AfterRaceFrame) =>
    /\ session.sorted_competitors = <<(<<"2">>), (<<"1">>)>>
    /\ Len(competitors_df) = 2
    /\ competitors_df[2].RacerID = <<"1">>
    /\ competitors_df[2].Diff = format_time_difference(1400)
    /\ competitors_df[2].Diff = <<"+", "0", "1", ".", "4", "0", "0">>

\* C19 as stated: for every competitor, total_time_milliseconds is 0 if
\* and only if total_time is empty or the sentinel, and likewise for
\* best_time, whatever value a record supplied.
C19_ZeroIffEmptyOrSentinel ==
  \A p \in TimeFields(session) :
    p[2] = 0 <=> (p[1] = <<>> \/ p[1] = SENTINEL)

\* C19 amended: for every competitor and for total_time as for best_time,
\* the milliseconds are 0 when the time is empty, the sentinel, a time
\* whose digits are all 0 or a text without a digit, and they are positive
\* when the time is any other time [[HH:]MM:]SS[.mmm] written with digits.
C19_ZeroOrPositive ==
  \A p \in TimeFields(session) :
    /\ (p[1] = <<>> \/ p[1] = SENTINEL) => p[2] = 0
    /\ (PlainTime(p[1]) /\ ~HasNonZeroDigit(p[1])) => p[2] = 0
    /\ HasNoDigit(p[1]) => p[2] = 0
    /\ (PlainTime(p[1]) /\ HasNonZeroDigit(p[1]) /\ p[1] # SENTINEL) =>
         p[2] > 0

\* racer 3 has the total time 00:00:00.000 and the sentinel as best time,
\* both worth 0; racer 4 has the total time DNF, worth 0; racer 2 has a
\* total time and a best time that are positive
C19_Witness ==
  /\ CompetitorIndex(session, <<"2">>) # 0
  /\ CompetitorIndex(session, <<"3">>) # 0
  /\ CompetitorIndex(session, <<"4">>) # 0
  /\ Deref(session, <<"3">>).total_time = MakeTime(0, 0, 0, 0)
  /\ Deref(session, <<"3">>).total_time_milliseconds = 0
  /\ Deref(session, <<"3">>).best_time = SENTINEL
  /\ Deref(session, <<"3">>).best_time_milliseconds = 0
  /\ Deref(session, <<"4">>).total_time = <<"D", "N", "F">>
  /\ Deref(session, <<"4">>).total_time_milliseconds = 0
  /\ Deref(session, <<"2">>).total_time_milliseconds = 1201000
  /\ Deref(session, <<"2">>).best_time_milliseconds = 88100

\* C21: sort_mode is RACE or QUALIFYING and is RACE before the first
\* frame; a $RMS record of at least 2 fields makes it QUALIFYING when
\* field 1 is the word qualifying and RACE for any other value; every
\* other record, and a $RMS record of one field, leaves it as it was.
C21_SortModeFollowsRMS ==
  /\ session.sort_mode \in {"RACE", "QUALIFYING"}
  /\ (nframes = 0 /\ \A w \in Workers : thread[w] # "publishing") =>
       session.sort_mode = "RACE"
  /\ \A w \in Workers :
       thread[w] = "publishing" =>
         LET ls == lines_of(frame)
             start == [session |-> session_in, data_updated |-> FALSE]
         IN  \A i \in 1..Len(ls) :
               LET reached == process_lines(start, SubSeq(ls, 1, i - 1))
                   after == process_line(reached, ls[i])
                   elements == parse_line(ls[i])
               IN  after.session.sort_mode =
                     IF strip(ls[i]) # <<>>
                          /\ elements[1] = <<"$", "R", "M", "S">>
                          /\ Len(elements) >= 2
                     THEN IF elements[2]
                               = <<"q", "u", "a", "l", "i", "f", "y", "i",
                                   "n", "g">>
                          THEN "QUALIFYING" ELSE "RACE"
                     ELSE reached.session.sort_mode

\* "$RMS,race" was processed in QUALIFYING mode: the mode is RACE again
C21_Witness ==
  /\ thread[1] = "publishing"
  /\ frame = LineRMSR
  /\ session_in.sort_mode = "QUALIFYING"
  /\ session.sort_mode = "RACE"

\* C25: for every rank after the first of sorted_competitors: a competitor
\* without a total time has an empty gap and an empty diff; any other has
\* the gap diff_against(it, the one before it) and the diff
\* diff_against(it, the leader).
C25_GapsAndDiffs ==
  \A i \in 2..Len(session.sorted_competitors) :
    LET cur == Ranked(session, i)
    IN  IF cur.total_time_milliseconds = 0
        THEN cur.calculated_gap = <<>> /\ cur.calculated_diff = <<>>
        ELSE /\ cur.calculated_gap
                  = DiffAgainst(cur, Ranked(session, i - 1))
             /\ cur.calculated_diff = DiffAgainst(cur, Ranked(session, 1))

\* the leader on lap 10, racer 2 on lap 9 and 2:00 behind with a best lap
\* of 1:35, racer 3 on lap 8 and 1:30 behind racer 2 with the same best
\* lap: racer 2 shows +1 LAP, racer 3 the diff +2 LAPS and the gap
\* +01:30.000
C25_Witness ==
  /\ thread[1] = "publishing"
  /\ frame = LapsDown
  /\ session.sorted_competitors = <<(<<"1">>), (<<"2">>), (<<"3">>)>>
  /\ Ranked(session, 2).calculated_diff = <<"+", "1", " ", "L", "A", "P">>
  /\ Ranked(session, 2).calculated_gap = <<"+", "1", " ", "L", "A", "P">>
  /\ Ranked(session, 3).calculated_diff
       = <<"+", "2", " ", "L", "A", "P", "S">>
  /\ Ranked(session, 3).calculated_gap
       = <<"+", "0", "1", ":", "3", "0", ".", "0", "0", "0">>

\* C28: when a batch has emitted its competitors table, data_updated is
\* False on every competitor of the competitor map, whichever $G, $H or $J
\* records set it during the batch.
C28_FlagsCleared ==
  \A w \in Workers :
    thread[w] = "publishing" =>
      \A i \in 1..Len(session.competitors) :
        ~session.competitors[i].data_updated

\* a batch with a $G for racer 1 and a $G for racer 2: both flags were set
\* by the line loop and both are False after the emission
C28_Witness ==
  /\ thread[1] = "publishing"
  /\ frame = RaceFrame
  /\ LET set == process_frame(session_in, frame).session
     IN  /\ Len(set.competitors) = 2
         /\ \A i \in 1..2 : set.competitors[i].data_updated
  /\ Len(session.competitors) = 2
  /\ \A i \in 1..2 : ~session.competitors[i].data_updated

\* C29: a $G, $H or $J record that meets its minimum field count and names
\* a racer X already in the competitor map leaves every field of X that
\* the record neither supplies nor derives (number, transponder, names,
\* nationality, category and the rest) as it was, leaves every other
\* competitor as it was, and leaves every other part of the Session as it
\* was; after the batch of the two-car race the first row still reads
\* "Ayrton Senna".
C29_UpsertKeepsTheRest ==
  \A w \in Workers :
    thread[w] = "publishing" =>
      LET ls == lines_of(frame)
          start == [session |-> session_in, data_updated |-> FALSE]
      IN  /\ \A i \in 1..Len(ls) :
               LET reached ==
                     process_lines(start, SubSeq(ls, 1, i - 1)).session
                   elements == parse_line(ls[i])
               IN  (IsTiming(ls[i])
                      /\ CompetitorIndex(reached, NamedRacer(elements)) # 0)
                   =>
                     LET after == process_line(
                           [session |-> reached, data_updated |-> FALSE],
                           ls[i]).session
                         k == CompetitorIndex(reached, NamedRacer(elements))
                         given == Supplied(elements)
                     IN  /\ Len(after.competitors)
                              = Len(reached.competitors)
                         /\ \A f \in (DOMAIN reached.competitors[k]
                                        \ DOMAIN given) \ Derived :
                              after.competitors[k][f]
                                = reached.competitors[k][f]
                         /\ \A j \in 1..Len(reached.competitors) :
                              j # k => after.competitors[j]
                                         = reached.competitors[j]
                         /\ [after EXCEPT !.competitors =
                                            reached.competitors] = reached
          /\ (frame = RaceFrame /\ session_in = NewSession) =>
               competitors_df[1].Name
                 = <<"A", "y", "r", "t", "o", "n", " ",
                     "S", "e", "n", "n", "a">>

\* the batch of the two-car race on a new session: the $G for racer 1
\* came after its $A, and the first row carries the number and the name
\* of the $A and the time of the $G
C29_Witness ==
  /\ thread[1] = "publishing"
  /\ frame = RaceFrame
  /\ session_in = NewSession
  /\ CompetitorIndex(AfterLines(session_in, frame, 2).session, <<"1">>) = 1
  /\ IsTiming(lines_of(frame)[3])
  /\ competitors_df[1].RacerID = <<"1">>
  /\ competitors_df[1].Name
       = <<"A", "y", "r", "t", "o", "n", " ", "S", "e", "n", "n", "a">>
  /\ competitors_df[1].Time
       = <<"0", "0", ":", "2", "0", ":", "0", "0", ".", "0", "0", "0">>

\* C22: no exception leaves process_data: none of a line, and none of the
\* ordering and snapshot step after the line loop, whatever the frame
\* holds.
C22_NothingEscapes == \A w \in Workers : error_log[w] # "callback"

\* C26: total_time_milliseconds and best_time_milliseconds of every
\* competitor are non-negative, whatever time string a record carried.
C26_NonNegativeTimes ==
  \A i \in 1..Len(session.competitors) :
    /\ session.competitors[i].total_time_milliseconds >= 0
    /\ session.competitors[i].best_time_milliseconds >= 0

\* C27: the fields of a record are the comma-separated pieces of the line
\* without their enclosing double quotes only: a double quote inside a
\* piece, or a single one at one end, stays in the field, and a $B record
\* stores the name so obtained.
C27_OnlyEnclosingQuotes ==
  \A w \in Workers :
    thread[w] = "publishing" =>
      LET ls == lines_of(frame)
      IN  \A i \in 1..Len(ls) :
            strip(ls[i]) # <<>> =>
              LET raw == split(ls[i], ",")
                  elements == parse_line(ls[i])
              IN  /\ \A k \in 1..Len(raw) : elements[k] = Unquote(raw[k])
                  /\ (Len(ls) = 1 /\ elements[1] = <<"$", "B">>
                        /\ Len(raw) >= 3) =>
                       session.session_name = Unquote(raw[3])

\* C30: while a listener thread started by connect is in its receive loop
\* on a socket that has not been closed, waiting for a frame or inside
\* process_data, running is TRUE.
C30_RunningTracksWorker ==
  \A w \in Workers :
    (thread[w] \in {"receiving", "publishing"} /\ ~closed[w]) => running

\* C23: a call of GetLinkAndKey with a non-empty string of digits goes to
\* the page of that race, and it returns (None, None) only after an error
\* on the way.
C23_DigitStringNavigates ==
  (/\ retrieval.stage \in {"returned", "raised"}
   /\ retrieval.fn = "GetLinkAndKey"
   /\ retrieval.arg.type = "str"
   /\ AllDigits(retrieval.arg.text))
  => /\ retrieval.navigated
     /\ retrieval.url_id = retrieval.arg.text

\* C24: the race id in the URL that get_link_and_key opens is the one
\* validate_race_id has validated: the text typed at the prompt when no
\* race_id was given, the digits of an integer argument.
C24_ValidatedIdIsNavigated ==
  (/\ retrieval.stage # "idle"
   /\ retrieval.fn = "get_link_and_key"
   /\ retrieval.navigated)
  => retrieval.url_id = retrieval.validated.text

\* the time 00:00:00.000
ZeroTime == MakeTime(0, 0, 0, 0)

\* a time HH:MM:SS.mmm without its leading components that are zero: the
\* hours when they are 00, and then the minutes when they are 00 too
WithoutLeadingZeros(t) ==
  IF SubSeq(t, 1, 3) # <<"0", "0", ":">> THEN t
  ELSE IF SubSeq(t, 4, 6) # <<"0", "0", ":">> THEN SubSeq(t, 4, Len(t))
  ELSE SubSeq(t, 7, Len(t))

\* C20 as stated: for every valid time t other than the sentinel,
\* 00:00:00.000 included, formatting the milliseconds of t gives "+"
\* followed by t without its leading zero components.
C20_RoundTripEveryTime ==
  (probe.stage = "formatted" /\ probe.time_str # SENTINEL) =>
    probe.text = <<"+">> \o WithoutLeadingZeros(probe.time_str)

\* C20 amended: for every valid time t other than the sentinel and other
\* than 00:00:00.000, formatting the milliseconds of t gives "+" followed
\* by t without its leading zero components; for 00:00:00.000 and for the
\* sentinel the milliseconds are 0 and the text is empty.
C20_RoundTrip ==
  probe.stage = "formatted" =>
    IF probe.time_str \in {SENTINEL, ZeroTime}
    THEN probe.total_ms = 0 /\ probe.text = <<>>
    ELSE probe.text = <<"+">> \o WithoutLeadingZeros(probe.time_str)

\* 00:00:59.001 went through both conversions and came back as +59.001
C20_Witness ==
  /\ probe.stage = "formatted"
  /\ probe.time_str = MakeTime(0, 0, 59, 1)
  /\ probe.total_ms = 59001
  /\ probe.text = <<"+", "5", "9", ".", "0", "0", "1">>

=============================================================================
